---------------------------- MODULE Spec2Model ----------------------------
(***************************************************************************)
(* A model of the device session core of pysesameos2: the device session   *)
(* (CHDevices / CHSesameLock / CHSesame2 / CHSesameBot), the fragment       *)
(* codec (CHSesame2BleTransmiter / CHSesame2BleReceiver) and the session    *)
(* cipher (BleCipher).                                                      *)
(*                                                                         *)
(* The session runs on one asyncio event loop.  A coroutine runs without   *)
(* interruption from one await to the next, so every action below is one   *)
(* such synchronous segment: the start of an operation up to its first     *)
(* await, or the resumption of a suspended coroutine up to its next await  *)
(* or its end.  Suspended coroutines are kept in `tasks`.                  *)
(***************************************************************************)
EXTENDS Integers, Sequences, FiniteSets, TLC

VARIABLES
    \* ---- the device session (device.py, chsesame2.py, chsesamebot.py)
    devKind,            \* "lock" (CHSesame2) or "bot" (CHSesameBot)
    deviceStatus,       \* CHDevices._deviceStatus
    loginEvent,         \* CHDevices._login_event is set
    statusCallback,     \* CHDevices._deviceStatus_callback
    advertisement,      \* CHDevices._advertisement
    rssi,               \* CHDevices._rssi
    registered,         \* CHDevices._registered
    key,                \* CHDevices._key: which keys are set
    sesameToken,        \* CHSesameLock._sesameToken
    cipher,             \* CHSesameLock._cipher
    characteristicTX,   \* CHSesameLock._characteristicTX is set
    mechStatus,         \* _mechStatus
    mechSetting,        \* _mechSetting
    intention,          \* _intention
    \* ---- the BLE stack the session talks to (bleak)
    link,               \* state of self._client
    connects,           \* number of BleakClients the session has created
    written,            \* chunks handed to write_gatt_char since the latest start chunk
    tasks,              \* suspended coroutines of the session
    last,               \* what the latest segment was and how it ended
    \* ---- the fragment codec (ble.py)
    txInput,            \* CHSesame2BleTransmiter._input
    txKind,             \* CHSesame2BleTransmiter._BleCommunicationType
    txWaitsend,         \* CHSesame2BleTransmiter._waitsend
    txFirst,            \* CHSesame2BleTransmiter._isStartFirstCut
    rxBuffer,           \* CHSesame2BleReceiver.buffer
    fragOut,            \* what the latest getChunk / feed returned
    fragFed,            \* number of chunks fed to the receiver
    rxFed,              \* the chunks fed to the receiver, in order
    \* ---- two cipher instances (crypto.py)
    sender,             \* a BleCipher
    receiver,           \* a BleCipher built with the same key and token
    cipherOut,          \* what the latest encrypt / decrypt did
    encNonces,          \* the nonces that the encrypt calls of sender have used
    \* ---- the BLE manager (ble.py)
    scanOut,            \* what the latest scan / scan_by_address was given and did
    \* ---- the local key (crypto.py) and the helpers (helper.py)
    factory,            \* AppKeyFactory and the threads that call get_instance
    helperOut           \* what the latest helper call was given and returned

sessionVars == <<devKind, deviceStatus, loginEvent, statusCallback, advertisement,
                 rssi, registered, key, sesameToken, cipher, characteristicTX,
                 mechStatus, mechSetting, intention, link, connects, written, tasks,
                 last>>
fragVars == <<txInput, txKind, txWaitsend, txFirst, rxBuffer, fragOut, fragFed, rxFed>>
cipherVars == <<sender, receiver, cipherOut, encNonces>>
libVars == <<scanOut, factory, helperOut>>
vars == <<sessionVars, fragVars, cipherVars, libVars>>

None == "None"

(***************************************************************************)
(* const.py                                                                *)
(***************************************************************************)
UnLoginStatuses == {"NoBleSignal", "ReceivedBle", "BleConnecting", "WaitingGatt",
                    "BleLogining", "Registering", "ReadyToRegister",
                    "WaitingForAuth", "Reset", "DfuMode", "Busy"}
LoginStatuses == {"NoSettings", "Locked", "Moved", "Unlocked", "WaitApConnect",
                  "IotConnected", "IotDisconnected"}
CHSesame2Status == UnLoginStatuses \cup LoginStatuses

\* CHSesame2Status.<member>.value
StatusValue(status) == IF status \in LoginStatuses THEN "Login" ELSE "UnLogin"

CHSesame2Intention == {"movingToUnknownTarget", "locking", "unlocking", "holding", "idle"}


(***************************************************************************)
(* Optional values: <<>> is Python's None, <<v>> a value v.                *)
(***************************************************************************)
Nothing == <<>>
Some(v) == <<v>>
IsSome(o) == o # <<>>
The(o) == o[1]

Min(a, b) == IF a < b THEN a ELSE b

(***************************************************************************)
(* crypto.py: BleCipher over AES-CCM.                                      *)
(*                                                                         *)
(* AES-CCM is modelled as an ideal authenticated cipher: a ciphertext      *)
(* names the key, nonce and plaintext it was sealed with, and opening it   *)
(* succeeds only under the same key and nonce.  A counter field is the     *)
(* pair of the top bit of the field and the bits below it.  The field of   *)
(* the code is 5 bytes wide, top bit 2^39 = 549755813888; the field of the *)
(* model is CounterFieldBits wide and keeps the arithmetic of the code:    *)
(* the or with the top bit, the mask of the bits below it, and the         *)
(* OverflowError of to_bytes for a value that does not fit the field.      *)
(***************************************************************************)
\* the width of the counter field, in bits
CounterFieldBits == 4
\* 549755813888, the top bit of the counter field
TopBit == 2 ^ (CounterFieldBits - 1)
\* the values of the field: to_bytes(5, "little") raises OverflowError from here on
FieldSize == 2 * TopBit

\* n | 549755813888
OrTopBit(n) == IF (n \div TopBit) % 2 = 1 THEN n ELSE n + TopBit
\* n & 549755813887
MaskLow(n) == n % TopBit

\* AESCCM(key, tag_length=4).encrypt(nonce, data, bytes([0])): data plus a 4-byte tag
CcmEncrypt(k, nonce, plain) == [key |-> k, nonce |-> nonce, plain |-> plain]

\* AESCCM(key, tag_length=4).decrypt(nonce, data, bytes([0])); Nothing is InvalidTag
CcmDecrypt(k, nonce, ct) ==
    IF ct.key = k /\ ct.nonce = nonce THEN Some(ct.plain) ELSE Nothing

\* BleCipher.__init__
BleCipher(session_key, session_token) ==
    [session_key |-> session_key, session_token |-> session_token,
     decryptCounter |-> 0, encryptCounter |-> 0]

\* (self._encryptCounter | 549755813888).to_bytes(5, "little") + self._session_token
EncryptNonceAlt(c) ==
    [top |-> 0, low |-> c.encryptCounter % TopBit, token |-> c.session_token]
EncryptNonce(c) ==
    [top |-> OrTopBit(c.encryptCounter) \div TopBit,
     low |-> OrTopBit(c.encryptCounter) % TopBit,
     token |-> c.session_token]

\* (self._decryptCounter & 549755813887).to_bytes(5, "little") + self._session_token
DecryptNonce(c) ==
    [top |-> MaskLow(c.decryptCounter) \div TopBit,
     low |-> MaskLow(c.decryptCounter) % TopBit,
     token |-> c.session_token]

\* BleCipher.encrypt: the instance afterwards, the bytes returned and the
\* exception raised, if any (to_bytes raises before the counter is advanced)
encryptSwapped(c, plain) ==
    [cipher |-> [c EXCEPT !.decryptCounter = @ + 1],
     out |-> CcmEncrypt(c.session_key, EncryptNonce(c), plain),
     exc |-> "none"]
encrypt(c, plain) ==
    IF OrTopBit(c.encryptCounter) >= FieldSize
    THEN [cipher |-> c, out |-> CcmEncrypt(c.session_key, EncryptNonce(c), plain),
          exc |-> "OverflowError"]
    ELSE [cipher |-> [c EXCEPT !.encryptCounter = @ + 1],
          out |-> CcmEncrypt(c.session_key, EncryptNonce(c), plain),
          exc |-> "none"]

\* BleCipher.decrypt: the instance afterwards and the bytes returned (Nothing: the
\* call raised InvalidTag); the counter is advanced before the tag is verified
decrypt(c, cipher_bytes) ==
    [cipher |-> [c EXCEPT !.decryptCounter = @ + 1],
     out |-> CcmDecrypt(c.session_key, DecryptNonce(c), cipher_bytes)]

(***************************************************************************)
(* ble.py: the fragment codec.  Bytes are numbers 0..255, byte strings are *)
(* sequences of them.                                                      *)
(***************************************************************************)
Mtu == 19

\* BleCommunicationType.<member>.value
SegmentValue(segment_type) == IF segment_type = "plaintext" THEN 1 ELSE 2

\* [data[i : i + mtu] for i in range(0, len(data), mtu)]
Slices(data) ==
    [i \in 1..((Len(data) + Mtu - 1) \div Mtu) |->
        SubSeq(data, (i - 1) * Mtu + 1, Min(i * Mtu, Len(data)))]

\* CHSesame2BleTransmiter.__init__
Transmiter(segment_type, data) ==
    [kind |-> segment_type, input |-> data, isStartFirstCut |-> TRUE,
     waitsend |-> Slices(data)]

\* a header that carries the kind, whatever is left to send
ChunkHeaderOfLast(isStart, t, waitsend) == isStart + 2 * SegmentValue(t.kind)
\* the header byte of getChunk: is_start | ((kind if len(waitsend) == 1 else APPEND_ONLY) << 1)
ChunkHeader(isStart, t, waitsend) ==
    isStart + 2 * (IF Len(waitsend) = 1 THEN SegmentValue(t.kind) ELSE 0)

\* CHSesame2BleTransmiter.getChunk: the transmitter afterwards, the chunk returned
\* (Nothing: None) and the exception raised, if any
getChunk(t) ==
    IF t.isStartFirstCut
    THEN LET t1 == [t EXCEPT !.isStartFirstCut = FALSE]
         IN IF Len(t.waitsend) = 0
            THEN [tx |-> t1, out |-> Nothing, exc |-> "IndexError"]
            ELSE [tx |-> t1,
                  out |-> Some(<<ChunkHeader(1, t, t.waitsend)>> \o t.waitsend[1]),
                  exc |-> "none"]
    ELSE LET f == IF Len(t.waitsend) = 0 THEN <<>> ELSE Tail(t.waitsend)
             t1 == [t EXCEPT !.waitsend = f]
         IN IF Len(f) = 0
            THEN [tx |-> t1, out |-> Nothing, exc |-> "none"]
            ELSE [tx |-> t1, out |-> Some(<<ChunkHeader(0, t, f)>> \o f[1]),
                  exc |-> "none"]

\* the kind and bytes that feed returns with the buffer buf and the kind bits i2
FeedReturn(buf, i2) ==
    IF i2 = 0
    THEN [buffer |-> buf, kind |-> "None", data |-> Nothing, exc |-> "none"]
    ELSE IF i2 = 1
    THEN [buffer |-> buf, kind |-> "plaintext", data |-> Some(buf), exc |-> "none"]
    ELSE IF i2 = 2
    THEN [buffer |-> buf, kind |-> "ciphertext", data |-> Some(buf), exc |-> "none"]
    ELSE [buffer |-> buf, kind |-> "None", data |-> Nothing, exc |-> "ValueError"]

\* a receiver that appends every chunk, the start flag set or not
feedAppending(buffer, barr) ==
    IF Len(barr) = 0
    THEN [buffer |-> buffer, kind |-> "None", data |-> Nothing, exc |-> "IndexError"]
    ELSE FeedReturn(buffer \o Tail(barr), barr[1] \div 2)

\* CHSesame2BleReceiver.feed: the buffer afterwards and the pair returned
\* (kind "None": the (None, None) of an incomplete frame)
feed(buffer, barr) ==
    IF Len(barr) = 0
    THEN [buffer |-> buffer, kind |-> "None", data |-> Nothing, exc |-> "IndexError"]
    ELSE LET b == barr[1]
             i == b % 2
             i2 == b \div 2
             buf == IF i > 0 THEN Tail(barr) ELSE buffer \o Tail(barr)
         IN IF i2 = 0
            THEN [buffer |-> buf, kind |-> "None", data |-> Nothing, exc |-> "none"]
            ELSE IF i2 = 1
            THEN [buffer |-> buf, kind |-> "plaintext", data |-> Some(buf), exc |-> "none"]
            ELSE IF i2 = 2
            THEN [buffer |-> buf, kind |-> "ciphertext", data |-> Some(buf), exc |-> "none"]
            ELSE [buffer |-> buf, kind |-> "None", data |-> Nothing, exc |-> "ValueError"]


(***************************************************************************)
(* The device session.  The operators below are the methods of the         *)
(* session: each takes the session's fields as a record s and returns them *)
(* as the method leaves them, with s.exc the exception it raised ("none":  *)
(* it did not raise) and s.cont the await it is suspended in, if any.       *)
(***************************************************************************)
AppToken == "app"
\* the session tokens a device publishes, and the token of another session
Tokens == {"t1"}
ForeignToken == "t0"

\* the rssi of a received advertisement (dev.rssi)
AdvRssi == -60
\* CHDevices.__init__ and setAdvertisement(None): the rssi without a signal
NoSignalRssi == -100

\* the target of a lock that is not moving (CHSesame2.setMechStatus)
IdleTarget == -32768
\* len(HistoryTagHelper.create_htag(...)), the body of lock / unlock / click
HtagLen == 22
\* len(sesame_keyindex + local_pk + app_token + cmac_tag_response), the login body
LoginLen == 74
\* AESCCM(tag_length=4)
TagLen == 4

Zeros(n) == [i \in 1..n |-> 0]

Raise(s, e) == [s EXCEPT !.exc = e]
Ok(s) == s.exc = "none"

\* CHSesame2BlePayload; toDataWithHeader() is two bytes longer than the data
Payload(op_code, item_code, len) == [op_code |-> op_code, item_code |-> item_code, len |-> len]

\* the ECDH / AES-CMAC derivation of loginSesame: a function of the two tokens
\* (the keys of one session never change)
SessionKey(tokens) == <<"cmac", tokens>>

\* self._login_event.set(): the event becomes set, and if it was not set, the
\* callers that wait for it are woken
LoginEventSet(s) == [s EXCEPT !.loginEvent = TRUE, !.woken = @ \/ ~s.loginEvent]

\* the callback is called with the session s: it reads the status of s
Callback(s) == [s EXCEPT !.observed = Append(@, s.deviceStatus)]

\* setDeviceStatus with the callback called before the assignment
setDeviceStatusCallbackFirst(s, status) ==
    IF status = s.deviceStatus
    THEN s
    ELSE LET s0 == IF s.statusCallback = "none" THEN s ELSE Callback(s)
             s1 == [s0 EXCEPT !.deviceStatus = status]
         IN IF s1.statusCallback = "raises"
            THEN Raise(s1, "CallbackError")
            ELSE IF StatusValue(status) = "UnLogin"
            THEN [s1 EXCEPT !.loginEvent = FALSE]
            ELSE IF StatusValue(status) = "Login"
            THEN LoginEventSet(s1)
            ELSE s1

\* CHDevices.setDeviceStatus
setDeviceStatus(s, status) ==
    IF status = s.deviceStatus
    THEN s
    ELSE LET s0 == [s EXCEPT !.deviceStatus = status]
             s1 == IF s0.statusCallback = "none" THEN s0 ELSE Callback(s0)
         IN IF s1.statusCallback = "raises"
            THEN Raise(s1, "CallbackError")
            ELSE IF StatusValue(status) = "UnLogin"
            THEN [s1 EXCEPT !.loginEvent = FALSE]
            ELSE IF StatusValue(status) = "Login"
            THEN LoginEventSet(s1)
            ELSE s1

\* setAdvertisement that moves to ReceivedBle from whatever status
setAdvertisementFromAnyStatus(s, adv) ==
    LET s1 == [s EXCEPT !.advertisement = adv]
    IN IF adv = Nothing
       THEN LET s2 == setDeviceStatus(s1, "NoBleSignal")
            IN IF Ok(s2) THEN [s2 EXCEPT !.rssi = NoSignalRssi] ELSE s2
       ELSE IF ~The(adv).isRegistered
       THEN Raise(s1, "RuntimeError")
       ELSE setDeviceStatus([s1 EXCEPT !.rssi = The(adv).rssi,
                                       !.registered = The(adv).isRegistered],
                            "ReceivedBle")

\* CHDevices.setAdvertisement
setAdvertisement(s, adv) ==
    LET s1 == [s EXCEPT !.advertisement = adv]
    IN IF adv = Nothing
       THEN LET s2 == setDeviceStatus(s1, "NoBleSignal")
            IN IF Ok(s2) THEN [s2 EXCEPT !.rssi = NoSignalRssi] ELSE s2
       ELSE IF ~The(adv).isRegistered
       THEN Raise(s1, "RuntimeError")
       ELSE LET s2 == [s1 EXCEPT !.rssi = The(adv).rssi,
                                 !.registered = The(adv).isRegistered]
            IN IF s2.deviceStatus = "NoBleSignal"
               THEN setDeviceStatus(s2, "ReceivedBle")
               ELSE s2

\* what the device has of the frame it is receiving, after one more chunk: like
\* CHSesame2BleReceiver, it starts over at a chunk whose start bit is set
Wire(chunks, chunk) == IF chunk.header % 2 = 1 THEN <<chunk>> ELSE Append(chunks, chunk)

\* the while loop of transmit: take the next chunk and hand it to write_gatt_char
\* (an await), or return when there is none; without a connect() before it the
\* session has no self._client
transmitLoop(s, tx, frame) ==
    LET g == getChunk(tx)
    IN IF g.exc # "none" THEN Raise(s, g.exc)
       ELSE IF g.out = Nothing THEN s
       ELSE IF s.link.state = "none" THEN Raise(s, "AttributeError")
       ELSE [s EXCEPT !.written = Wire(@, [header |-> The(g.out)[1],
                                           size |-> Len(The(g.out)),
                                           frame |-> frame]),
                      !.cont = Some([pc |-> "write", tx |-> g.tx, frame |-> frame])]

\* CHSesame2.transmit / CHSesameBot.transmit, up to the first write
transmit(s, tx, frame) ==
    IF s.characteristicTX THEN transmitLoop(s, tx, frame) ELSE Raise(s, "RuntimeError")

\* sendCommand without the test `if cipher is not None`: cipher.encrypt of None
sendCommandUntested(s, payload, is_cipher) ==
    IF is_cipher = "ciphertext"
    THEN IF s.cipher = Nothing
         THEN Raise(s, "AttributeError")
         ELSE LET e == encrypt(The(s.cipher), payload)
                  s1 == [s EXCEPT !.cipher = Some(e.cipher)]
              IN IF e.exc # "none" THEN Raise(s1, e.exc)
                 ELSE transmit(s1, Transmiter(is_cipher, Zeros(2 + payload.len + TagLen)),
                               [seg |-> is_cipher, payload |-> payload, ct |-> Some(e.out)])
    ELSE transmit(s, Transmiter(is_cipher, Zeros(2 + payload.len)),
                  [seg |-> is_cipher, payload |-> payload, ct |-> Nothing])

\* CHSesame2.sendCommand / CHSesameBot.sendCommand
sendCommand(s, payload, is_cipher) ==
    IF is_cipher = "ciphertext"
    THEN IF s.cipher = Nothing
         THEN s
         ELSE LET e == encrypt(The(s.cipher), payload)
                  s1 == [s EXCEPT !.cipher = Some(e.cipher)]
              IN IF e.exc # "none" THEN Raise(s1, e.exc)
                 ELSE transmit(s1, Transmiter(is_cipher, Zeros(2 + payload.len + TagLen)),
                               [seg |-> is_cipher, payload |-> payload, ct |-> Some(e.out)])
    ELSE transmit(s, Transmiter(is_cipher, Zeros(2 + payload.len)),
                  [seg |-> is_cipher, payload |-> payload, ct |-> Nothing])

\* the first statement of lock, unlock, toggle and click
NotLoggedInGuardByEvent(s) == ~s.loginEvent
NotLoggedInGuard(s) == StatusValue(s.deviceStatus) = "UnLogin"

\* lock with the communication type of the login command
lockInPlaintext(s) ==
    IF NotLoggedInGuard(s) THEN Raise(s, "RuntimeError")
    ELSE sendCommand(s, Payload("async", "lock", HtagLen), "plaintext")

\* CHSesame2.lock / CHSesameBot.lock
lock(s) ==
    IF NotLoggedInGuard(s) THEN Raise(s, "RuntimeError")
    ELSE sendCommand(s, Payload("async", "lock", HtagLen), "ciphertext")

\* CHSesame2.unlock / CHSesameBot.unlock
unlock(s) ==
    IF NotLoggedInGuard(s) THEN Raise(s, "RuntimeError")
    ELSE sendCommand(s, Payload("async", "unlock", HtagLen), "ciphertext")

\* CHSesameBot.click
click(s) ==
    IF NotLoggedInGuard(s) THEN Raise(s, "RuntimeError")
    ELSE sendCommand(s, Payload("async", "click", HtagLen), "ciphertext")

\* CHSesame2.toggle, a plain method, with the await of what it returns: the
\* coroutine of unlock or lock, or None, which `await` rejects with a TypeError;
\* CHSesameBot.toggle, a coroutine, which returns None
toggle(s, kind) ==
    IF NotLoggedInGuard(s) THEN Raise(s, "RuntimeError")
    ELSE IF s.mechStatus = Nothing THEN Raise(s, "RuntimeError")
    ELSE IF The(s.mechStatus).isInLockRange THEN unlock(s)
    ELSE IF The(s.mechStatus).isInUnlockRange THEN lock(s)
    ELSE IF kind = "lock" THEN Raise(s, "TypeError")
    ELSE s

\* CHSesame2.loginSesame: the status first, then the key material
loginSesameLock(s) ==
    LET s1 == setDeviceStatus(s, "BleLogining")
        tokens == <<AppToken, s.sesameToken>>
    IN IF ~Ok(s1) THEN s1
       ELSE IF s.sesameToken = None \/ ~s.key.secretKey \/ ~s.key.sesame2PublicKey
       THEN Raise(s1, "TypeError")
       ELSE sendCommand([s1 EXCEPT !.cipher = Some(BleCipher(SessionKey(tokens), tokens))],
                        Payload("sync", "login", LoginLen), "plaintext")

\* CHSesameBot.loginSesame: the key material first, then the status
loginSesameBot(s) ==
    LET tokens == <<AppToken, s.sesameToken>>
    IN IF s.sesameToken = None \/ ~s.key.secretKey \/ ~s.key.sesame2PublicKey
       THEN Raise(s, "RuntimeError")
       ELSE LET s1 == [s EXCEPT !.cipher = Some(BleCipher(SessionKey(tokens), tokens))]
                s2 == setDeviceStatus(s1, "BleLogining")
            IN IF Ok(s2)
               THEN sendCommand(s2, Payload("sync", "login", LoginLen), "plaintext")
               ELSE s2

loginSesame(s, kind) == IF kind = "lock" THEN loginSesameLock(s) ELSE loginSesameBot(s)


\* setMechStatus of the lock with the test for a missing setting first
setMechStatusLockSettingFirst(s, status) ==
    LET s1 == [s EXCEPT !.mechStatus = Some(status)]
    IN IF s1.mechSetting = Nothing
       THEN [s1 EXCEPT !.intention = "movingToUnknownTarget"]
       ELSE IF status.target = IdleTarget THEN [s1 EXCEPT !.intention = "idle"]
       ELSE IF status.target = The(s1.mechSetting).lockPosition
       THEN [s1 EXCEPT !.intention = "locking"]
       ELSE IF status.target = The(s1.mechSetting).unlockPosition
       THEN [s1 EXCEPT !.intention = "unlocking"]
       ELSE s1

\* CHSesame2.setMechStatus: the intention rule of the lock
setMechStatusLock(s, status) ==
    LET s1 == [s EXCEPT !.mechStatus = Some(status)]
    IN IF status.target = IdleTarget THEN [s1 EXCEPT !.intention = "idle"]
       ELSE IF s1.mechSetting = Nothing
       THEN [s1 EXCEPT !.intention = "movingToUnknownTarget"]
       ELSE IF status.target = The(s1.mechSetting).lockPosition
       THEN [s1 EXCEPT !.intention = "locking"]
       ELSE IF status.target = The(s1.mechSetting).unlockPosition
       THEN [s1 EXCEPT !.intention = "unlocking"]
       ELSE s1

\* CHSesameBot.setMechStatus: the intention follows the motor status
setMechStatusBot(s, status) ==
    [s EXCEPT !.mechStatus = Some(status),
              !.intention = IF status.motorStatus = 0 THEN "idle"
                            ELSE IF status.motorStatus = 1 THEN "locking"
                            ELSE IF status.motorStatus = 2 THEN "holding"
                            ELSE IF status.motorStatus = 3 THEN "unlocking"
                            ELSE "movingToUnknownTarget"]

setMechStatus(s, kind, status) ==
    IF kind = "lock" THEN setMechStatusLock(s, status) ELSE setMechStatusBot(s, status)

\* CHSesame2.setMechSetting / CHSesameBot.setMechSetting
setMechSetting(s, setting) == [s EXCEPT !.mechSetting = Some(setting)]

\* CHSesame2MechSettings.isConfigured
isConfigured(setting) == setting.lockPosition # setting.unlockPosition

\* Locked if isInLockRange() else Unlocked
RangeStatus(status) == IF status.isInLockRange THEN "Locked" ELSE "Unlocked"

\* CHSesameBotBleLoginResponse: the setting and the status carried by the body of
\* a login response of the bot
CHSesameBotBleLoginResponse(body) ==
    [mechSetting |-> body.setting, mechStatus |-> body.status]

\* CHSesame2BleLoginResponse: the setting and the status carried by the body of a
\* login response of the lock, {system_time, reserved, mech_setting, mech_status}
CHSesame2BleLoginResponse(body) ==
    [mechSetting |-> body.setting, mechStatus |-> body.status]

\* onCharacteristicChanged on a response (login, success)
onLoginResponse(s, kind, body) ==
    LET r == IF kind = "lock" THEN CHSesame2BleLoginResponse(body)
             ELSE CHSesameBotBleLoginResponse(body)
        s1 == setMechStatus(setMechSetting(s, r.mechSetting), kind, r.mechStatus)
    IN IF kind = "lock"
       THEN IF isConfigured(The(s1.mechSetting))
            THEN setDeviceStatus(s1, RangeStatus(The(s1.mechStatus)))
            ELSE setDeviceStatus(s1, "NoSettings")
       ELSE setDeviceStatus(s1, RangeStatus(r.mechStatus))

\* the exception of onGattSesamePublish for a device that is not registered
UnregisteredError(kind) == IF kind = "lock" THEN "ValueError" ELSE "NotImplementedError"

\* CHSesame2.onGattSesamePublish / CHSesameBot.onGattSesamePublish
onGattSesamePublish(s, kind, p) ==
    IF p.item = "initial"
    THEN LET s1 == [s EXCEPT !.sesameToken = p.token]
         IN IF ~s1.registered
            THEN LET s2 == setDeviceStatus(s1, "ReadyToRegister")
                 IN IF Ok(s2) THEN Raise(s2, UnregisteredError(kind)) ELSE s2
            ELSE loginSesame(s1, kind)
    ELSE IF p.item = "mechStatus"
    THEN LET s1 == setMechStatus(s, kind, p.status)
         IN setDeviceStatus(s1, RangeStatus(The(s1.mechStatus)))
    ELSE IF p.item = "mechSetting"
    THEN LET s1 == setMechSetting(s, p.setting)
         IN IF kind = "bot" THEN s1
            ELSE IF s1.mechStatus = Nothing THEN Raise(s1, "AttributeError")
            ELSE setDeviceStatus(s1, RangeStatus(The(s1.mechStatus)))
    ELSE s

\* the dispatch without the test of the result code: every response to login is
\* taken as a success
onNotifyAnyResult(s, kind, n) ==
    IF n.notifyOp = "publish" THEN onGattSesamePublish(s, kind, n)
    ELSE IF n.notifyOp = "response" /\ n.item = "login"
    THEN onLoginResponse(s, kind, n)
    ELSE s

\* the dispatch of onCharacteristicChanged on a decoded notify payload
onNotify(s, kind, n) ==
    IF n.notifyOp = "publish" THEN onGattSesamePublish(s, kind, n)
    ELSE IF n.notifyOp = "response" /\ n.item = "login" /\ n.result = "success"
    THEN onLoginResponse(s, kind, n)
    ELSE s

\* CHSesame2.onCharacteristicChanged / CHSesameBot.onCharacteristicChanged on the
\* chunk that completes a frame: frame.data is the notify payload of a plaintext
\* frame and the AES-CCM ciphertext of it in a ciphertext frame
onCharacteristicChanged(s, kind, frame) ==
    IF frame.seg = "plaintext" THEN onNotify(s, kind, frame.data)
    ELSE IF s.cipher = Nothing
    THEN Raise(s, IF kind = "lock" THEN "AttributeError" ELSE "RuntimeError")
    ELSE LET d == decrypt(The(s.cipher), frame.data)
             s1 == [s EXCEPT !.cipher = Some(d.cipher)]
         IN IF d.out = Nothing THEN Raise(s1, "InvalidTag")
            ELSE onNotify(s1, kind, The(d.out))

\* CHSesame2.onConnectionStateChange / CHSesameBot.onConnectionStateChange
onConnectionStateChange(s) == setAdvertisement(s, Nothing)

(***************************************************************************)
(* connect and disconnect, one operator for each segment between awaits.   *)
(* s.link is the BleakClient of the session: state "none" (no client yet), *)
(* "created", "connected", "lost" (the connection is gone and the          *)
(* disconnected callback of the client is due) or "closed".                *)
(***************************************************************************)
NoClient == [state |-> "none", subscribed |-> FALSE, callback |-> FALSE]
NewClient == [state |-> "created", subscribed |-> FALSE, callback |-> FALSE]

Await(s, pc) ==
    [s EXCEPT !.cont = Some([pc |-> pc, tx |-> Transmiter("plaintext", <<>>),
                             frame |-> [seg |-> "None",
                                        payload |-> Payload("None", "None", 0),
                                        ct |-> Nothing]])]

\* CHDevices.wait_for_login, up to the return of `self._login_event.wait()`, which
\* returns at once if the event is set
wait_for_login(s) == IF s.loginEvent THEN s ELSE Await(s, "login_event")

\* connect, up to `await self._client.connect()`
connectStart(s, kind) ==
    IF s.advertisement = Nothing
    THEN Raise(s, IF kind = "lock" THEN "AttributeError" ELSE "RuntimeError")
    ELSE LET s1 == setDeviceStatus([s EXCEPT !.link = NewClient, !.connects = @ + 1],
                                   "BleConnecting")
         IN IF Ok(s1) THEN Await(s1, "connect") ELSE s1

\* connect, from the return of client.connect() to `await get_services()`
connectConnected(s, ret) ==
    IF ret = "raise" THEN Raise(s, "BleakError")
    ELSE IF ret = "false" THEN Raise(s, "RuntimeError")
    ELSE LET s1 == [s EXCEPT !.link = [@ EXCEPT !.state = "connected", !.callback = TRUE]]
             s2 == setDeviceStatus(s1, "WaitingGatt")
         IN IF Ok(s2) THEN Await(s2, "services") ELSE s2

\* connect, from the return of get_services() to `await start_notify(...)`
connectServices(s, services) ==
    IF services = "raise" THEN Raise(s, "BleakError")
    ELSE IF services = "other" THEN s
    ELSE IF services = "no characteristic" THEN Raise(s, "TypeError")
    ELSE Await([s EXCEPT !.characteristicTX = TRUE], "notify")

\* connect, from the return of start_notify(...) to its end
connectNotify(s, ok) ==
    IF ok THEN [s EXCEPT !.link = [@ EXCEPT !.subscribed = TRUE]]
    ELSE Raise(s, "BleakError")

\* what `except (ValueError, Exception)` of disconnect does with s.exc
Swallow(s) == [s EXCEPT !.exc = "none"]

\* disconnect, up to `await self._client.stop_notify(RX_UUID)`
disconnectStart(s) ==
    LET s1 == setDeviceStatus(s, "NoBleSignal")
    IN IF ~Ok(s1) THEN Swallow(s1)
       ELSE IF s1.link.state = "none" THEN Swallow(Raise(s1, "AttributeError"))
       ELSE Await(s1, "stop_notify")

\* disconnect, from the return of stop_notify to `await self._client.disconnect()`
disconnectStopped(s, ok) ==
    IF ok THEN Await([s EXCEPT !.link = [@ EXCEPT !.subscribed = FALSE]], "disconnect")
    ELSE Swallow(Raise(s, "BleakError"))

\* disconnect, from the return of client.disconnect() to its end
disconnectClosed(s, ok) ==
    IF ok
    THEN [s EXCEPT !.link = [@ EXCEPT !.state = IF @ = "connected" THEN "lost" ELSE @,
                                       !.subscribed = FALSE]]
    ELSE Swallow(Raise(s, "BleakError"))


(***************************************************************************)
(* Bounds and inputs of the session model.                                 *)
(***************************************************************************)
\* coroutines of one session suspended at the same time
MaxTasks == 1
\* encrypt and decrypt calls on one cipher of a session in one run
MaxCounter == 1
\* connections a session makes in one run
MaxConnects == 1

\* the slots for the suspended coroutines of the session
Slots == DOMAIN tasks

\* what setAdvertisement is called with
Advertisements == {Nothing,
                   Some([isRegistered |-> TRUE, rssi |-> AdvRssi]),
                   Some([isRegistered |-> FALSE, rssi |-> AdvRssi])}

\* the statuses setDeviceStatus is called with from outside the session
CallerStatuses == CHSesame2Status

\* the callbacks setDeviceStatusCallback is called with: None and a callback that
\* raises
Callbacks == {"none", "raises"}

\* mechanical settings and statuses a device reports: a configured and an
\* unconfigured setting; a status in the lock range and one out of it
MechSettings == {[lockPosition |-> 10, unlockPosition |-> 20],
                 [lockPosition |-> 10, unlockPosition |-> 10]}
MechStatuses(kind) ==
    IF kind = "lock"
    THEN {[target |-> IdleTarget, motorStatus |-> 0, isInLockRange |-> TRUE, isInUnlockRange |-> FALSE],
          [target |-> 10, motorStatus |-> 0, isInLockRange |-> FALSE, isInUnlockRange |-> TRUE]}
    ELSE {[target |-> 0, motorStatus |-> 0, isInLockRange |-> TRUE, isInUnlockRange |-> FALSE],
          [target |-> 0, motorStatus |-> 1, isInLockRange |-> FALSE, isInUnlockRange |-> TRUE]}

NoSetting == [lockPosition |-> 0, unlockPosition |-> 0]
NoStatus == [target |-> 0, motorStatus |-> 0, isInLockRange |-> FALSE, isInUnlockRange |-> FALSE]

\* the notify payloads a device sends
Notify(notifyOp, item, result, token, setting, status) ==
    [notifyOp |-> notifyOp, item |-> item, result |-> result, token |-> token,
     setting |-> setting, status |-> status]
InitialPublishes == {Notify("publish", "initial", "None", tk, NoSetting, NoStatus) : tk \in Tokens}
MechPublishes(kind) ==
    {Notify("publish", "mechStatus", "None", "None", NoSetting, st) : st \in MechStatuses(kind)}
    \cup {Notify("publish", "mechSetting", "None", "None", se, NoStatus) : se \in MechSettings}
LoginResponses(kind) ==
    {Notify("response", "login", "success", "None", se, st) :
        se \in MechSettings, st \in MechStatuses(kind)}
    \cup {Notify("response", "login", "invalidSig", "None", NoSetting, NoStatus)}
OtherResponse == Notify("response", "lock", "success", "None", NoSetting, NoStatus)

\* the nonce a device seals its n-th frame of a session with: the top bit clear
DeviceNonce(n, tokens) == [top |-> 0, low |-> n % TopBit, token |-> tokens]

\* a ciphertext frame: the notify payload n sealed under the session key of the
\* token tk with the counter ctr
Sealed(n, tk, ctr) ==
    [seg |-> "ciphertext",
     data |-> CcmEncrypt(SessionKey(<<AppToken, tk>>), DeviceNonce(ctr, <<AppToken, tk>>), n)]

\* the complete frames a device can send to a session whose cipher is c: the initial
\* publish in plaintext; with a cipher, every notify payload of N sealed under its
\* key and its decrypt counter, and one payload sealed with the counter after it or
\* under the key of another session; without a cipher, one sealed payload
Frames(c, N) ==
    {[seg |-> "plaintext", data |-> n] : n \in InitialPublishes}
    \cup (IF c = Nothing
          THEN {Sealed(OtherResponse, ForeignToken, 0)}
          ELSE LET tk == The(c).session_token[2]
                   ctr == The(c).decryptCounter
               IN {Sealed(n, tk, ctr) : n \in N}
                  \cup {Sealed(OtherResponse, tk, ctr + 1),
                        Sealed(OtherResponse, ForeignToken, ctr)})

\* the notify payloads the device sends sealed
SessionNotifies(kind) == LoginResponses(kind) \cup {OtherResponse}

(***************************************************************************)
(* The state of the session as a record, and back.                         *)
(***************************************************************************)
Cur ==
    [deviceStatus |-> deviceStatus, loginEvent |-> loginEvent,
     statusCallback |-> statusCallback, advertisement |-> advertisement,
     rssi |-> rssi, registered |-> registered, key |-> key,
     sesameToken |-> sesameToken, cipher |-> cipher,
     characteristicTX |-> characteristicTX, mechStatus |-> mechStatus,
     mechSetting |-> mechSetting, intention |-> intention, link |-> link,
     connects |-> connects, written |-> written, exc |-> "none", cont |-> Nothing,
     observed |-> <<>>, woken |-> FALSE]

Install(s) ==
    /\ deviceStatus' = s.deviceStatus
    /\ loginEvent' = s.loginEvent
    /\ statusCallback' = s.statusCallback
    /\ advertisement' = s.advertisement
    /\ rssi' = s.rssi
    /\ registered' = s.registered
    /\ key' = s.key
    /\ sesameToken' = s.sesameToken
    /\ cipher' = s.cipher
    /\ characteristicTX' = s.characteristicTX
    /\ mechStatus' = s.mechStatus
    /\ mechSetting' = s.mechSetting
    /\ intention' = s.intention
    /\ link' = s.link
    /\ connects' = s.connects
    /\ written' = s.written

\* the bounds of a run: MaxCounter calls of encrypt and of decrypt on a cipher, or
\* one for each coroutine that can be suspended
CounterBound == IF MaxCounter < Len(tasks) THEN Len(tasks) ELSE MaxCounter
WithinBounds(s) ==
    /\ s.cipher # Nothing =>
          /\ The(s.cipher).encryptCounter <= CounterBound
          /\ The(s.cipher).decryptCounter <= CounterBound

\* the suspended coroutines after a segment that leaves the session as s: the ones
\* that wait for the login event are ready to run if the segment has set the event
Woken(ts, s) ==
    [i \in DOMAIN ts |->
        IF s.woken /\ ts[i] # Nothing /\ The(ts[i]).pc = "login_event"
        THEN Some([The(ts[i]) EXCEPT !.pc = "woken"])
        ELSE ts[i]]

\* a call that runs to its end without an await: the session becomes s
Call(op, arg, s) ==
    /\ WithinBounds(s)
    /\ Install(s)
    /\ tasks' = Woken(tasks, s)
    /\ last' = [op |-> op, arg |-> arg, seg |-> "start", err |-> s.exc, pending |-> FALSE,
                observed |-> s.observed]
    /\ UNCHANGED <<devKind, fragVars, cipherVars, libVars>>

\* the segment seg ("start", or the await it resumes from) of the coroutine in slot
\* i, which leaves the session as s: the coroutine stays in its slot if s.cont names
\* the await it is suspended in
Segment(i, op, arg, seg, s) ==
    /\ WithinBounds(s)
    /\ Install(s)
    /\ tasks' = Woken([tasks EXCEPT ![i] =
                          IF s.cont = Nothing THEN Nothing
                          ELSE Some([op |-> op, arg |-> arg, pc |-> The(s.cont).pc,
                                     tx |-> The(s.cont).tx,
                                     frame |-> The(s.cont).frame])], s)
    /\ last' = [op |-> op, arg |-> arg, seg |-> seg, err |-> s.exc,
                pending |-> s.cont # Nothing, observed |-> s.observed]
    /\ UNCHANGED <<devKind, fragVars, cipherVars, libVars>>

\* a coroutine is started, and its first segment leaves the session as s: it takes
\* the first free slot if it is suspended in an await
FreeSlot(i) == tasks[i] = Nothing /\ \A j \in 1..(i - 1) : tasks[j] # Nothing
Start(op, arg, s) ==
    IF s.cont = Nothing THEN Call(op, arg, s)
    ELSE \E i \in Slots : FreeSlot(i) /\ Segment(i, op, arg, "start", s)


\* the coroutine in slot i is suspended in the await pc
Suspended(i, pc) == tasks[i] # Nothing /\ The(tasks[i]).pc = pc

(***************************************************************************)
(* The session: initial state and actions.                                 *)
(***************************************************************************)
\* the variables of the codec and cipher specifications, at rest
FragIdle ==
    /\ txInput = <<>> /\ txKind = "plaintext" /\ txWaitsend = <<>> /\ txFirst = TRUE
    /\ rxBuffer = <<>> /\ fragOut = [op |-> "init"] /\ fragFed = 0 /\ rxFed = <<>>
CipherIdle ==
    /\ sender = BleCipher("k1", "t1") /\ receiver = BleCipher("k1", "t1")
    /\ cipherOut = [op |-> "init"]
    /\ encNonces = {}
\* the threads of the process and the calls of get_instance each of them makes
MaxThreads == 3
MaxGets == 2
Threads == 1..MaxThreads
NoThread == 0

\* AppKeyFactory.__instance is None, AppKeyFactory.__lock is free, no key material
\* has been generated and no thread is inside get_instance
FactoryIdle ==
    factory = [instance |-> Nothing, lock |-> NoThread, created |-> 0,
               pc |-> [t \in Threads |-> "idle"],
               new |-> [t \in Threads |-> Nothing],
               ret |-> [t \in Threads |-> <<>>]]

LibIdle ==
    /\ scanOut = [op |-> "init"]
    /\ FactoryIdle
    /\ helperOut = [op |-> "init"]

\* CHDevices.__init__, CHSesameLock.__init__, CHSesame2.__init__ / CHSesameBot.__init__
InitSession ==
    /\ devKind \in {"lock", "bot"}
    /\ deviceStatus = "NoBleSignal"
    /\ loginEvent = FALSE
    /\ statusCallback = "none"
    /\ advertisement = Nothing
    /\ rssi = NoSignalRssi
    /\ registered = FALSE
    /\ key = [secretKey |-> FALSE, sesame2PublicKey |-> FALSE]
    /\ sesameToken = None
    /\ cipher = Nothing
    /\ characteristicTX = FALSE
    /\ mechStatus = Nothing
    /\ mechSetting = Nothing
    /\ intention = IF devKind = "lock" THEN None ELSE "idle"
    /\ link = NoClient
    /\ connects = 0
    /\ written = <<>>
    /\ tasks = [i \in 1..MaxTasks |-> Nothing]
    /\ last = [op |-> "init", arg |-> None, seg |-> "start", err |-> "none", pending |-> FALSE,
               observed |-> <<>>]

Init == InitSession /\ FragIdle /\ CipherIdle /\ LibIdle

\* a caller sets the status
SetDeviceStatus == \E status \in CallerStatuses :
    /\ status \in CHSesame2Status
    /\ Call("setDeviceStatus", status, setDeviceStatus(Cur, status))

\* CHDevices.setDeviceStatusCallback
SetDeviceStatusCallback == \E cb \in Callbacks :
    /\ cb \in {"none", "returns", "raises"}
    /\ Call("setDeviceStatusCallback", cb, [Cur EXCEPT !.statusCallback = cb])

\* the manager, or a caller, hands an advertisement (or None) to the session, before
\* the session is connected
SetAdvertisement == \E adv \in Advertisements :
    /\ link.state = "none"
    /\ Call("setAdvertisement", adv, setAdvertisement(Cur, adv))

\* CHDeviceKey.setSecretKey with a valid key; the application sets the keys of a
\* device before it connects to it, the secret key first
SetSecretKey ==
    /\ link.state = "none" /\ ~key.secretKey
    /\ Call("setSecretKey", None, [Cur EXCEPT !.key.secretKey = TRUE])

\* CHDeviceKey.setSesame2PublicKey with a valid key
SetSesame2PublicKey ==
    /\ link.state = "none" /\ key.secretKey /\ ~key.sesame2PublicKey
    /\ Call("setSesame2PublicKey", None, [Cur EXCEPT !.key.sesame2PublicKey = TRUE])

\* connect() is called
Connect ==
    /\ connects < MaxConnects
    /\ Start("connect", None, connectStart(Cur, devKind))

\* client.connect() returns (or raises)
ConnectConnected == \E i \in Slots, ret \in {"raise", "false", "true"} :
    /\ Suspended(i, "connect")
    /\ link.state = "created"
    /\ Segment(i, "connect", None, "connect", connectConnected(Cur, ret))

\* client.get_services() returns (or raises)
ConnectServices ==
    \E i \in Slots, services \in {"raise", "other", "no characteristic", "found"} :
        /\ Suspended(i, "services")
        /\ services # "raise" => link.state = "connected"
        /\ Segment(i, "connect", None, "services", connectServices(Cur, services))

\* client.start_notify(...) returns (or raises)
ConnectNotify == \E i \in Slots, ok \in BOOLEAN :
    /\ Suspended(i, "notify")
    /\ ok => link.state = "connected"
    /\ Segment(i, "connect", None, "notify", connectNotify(Cur, ok))

\* disconnect() is called
Disconnect ==
    /\ devKind \in {"lock", "bot"}
    /\ Start("disconnect", None, disconnectStart(Cur))

\* client.stop_notify(RX_UUID) returns (or raises)
DisconnectStopped == \E i \in Slots, ok \in BOOLEAN :
    /\ Suspended(i, "stop_notify")
    /\ ok => (link.state = "connected" /\ link.subscribed)
    /\ Segment(i, "disconnect", None, "stop_notify", disconnectStopped(Cur, ok))

\* client.disconnect() returns (or raises)
DisconnectClosed == \E i \in Slots, ok \in BOOLEAN :
    /\ Suspended(i, "disconnect")
    /\ Segment(i, "disconnect", None, "disconnect", disconnectClosed(Cur, ok))


\* lock() is called
Lock ==
    /\ devKind \in {"lock", "bot"}
    /\ Start("lock", None, lock(Cur))

\* unlock() is called
Unlock ==
    /\ devKind \in {"lock", "bot"}
    /\ Start("unlock", None, unlock(Cur))

\* toggle() is called (and, on the lock, the coroutine it returns is awaited)
Toggle ==
    /\ devKind \in {"lock", "bot"}
    /\ Start("toggle", None, toggle(Cur, devKind))

\* click() is called: CHSesameBot only
Click ==
    /\ devKind = "bot"
    /\ Start("click", None, click(Cur))

\* what a frame carries: its kind and the fields of its notify payload
FrameTag(frame) ==
    LET n == IF frame.seg = "plaintext" THEN frame.data ELSE frame.data.plain
    IN [seg |-> frame.seg, notifyOp |-> n.notifyOp, item |-> n.item, result |-> n.result,
        token |-> n.token, setting |-> n.setting, status |-> n.status,
        sealed |-> IF frame.seg = "plaintext" THEN Nothing
                   ELSE Some([key |-> frame.data.key, nonce |-> frame.data.nonce])]

\* the transport delivers a complete frame: bleak calls onCharacteristicChanged
OnCharacteristicChanged == \E frame \in Frames(cipher, SessionNotifies(devKind)) :
    /\ link.state = "connected" /\ link.subscribed
    /\ Start("onCharacteristicChanged", FrameTag(frame),
             onCharacteristicChanged(Cur, devKind, frame))

\* client.write_gatt_char(...) returns and the loop of transmit goes on, or it
\* raises because the connection is gone
WriteReturned == \E i \in Slots :
    /\ Suspended(i, "write")
    /\ Segment(i, The(tasks[i]).op, The(tasks[i]).arg, "write",
               IF link.state = "connected"
               THEN transmitLoop(Cur, The(tasks[i]).tx, The(tasks[i]).frame)
               ELSE Raise(Cur, "BleakError"))

\* a caller awaits wait_for_login
WaitForLogin ==
    /\ \E i \in Slots : FreeSlot(i)
    /\ Start("wait_for_login", None, wait_for_login(Cur))

\* a caller that the login event has woken returns from wait_for_login
WaitForLoginReturned == \E i \in Slots :
    /\ Suspended(i, "woken")
    /\ Segment(i, "wait_for_login", None, "login_event", Cur)

\* the connection to the device is lost
ConnectionLost ==
    /\ link.state = "connected"
    /\ Call("connectionLost", None,
            [Cur EXCEPT !.link = [@ EXCEPT !.state = "lost", !.subscribed = FALSE]])

\* bleak runs the disconnected callback of the client, if one was set
DisconnectedCallback ==
    /\ link.state = "lost"
    /\ LET s == [Cur EXCEPT !.link = [@ EXCEPT !.state = "closed"]]
       IN Call("onConnectionStateChange", None,
               IF link.callback THEN onConnectionStateChange(s) ELSE s)

Next ==
    \/ SetDeviceStatusCallback
    \/ SetAdvertisement
    \/ SetSecretKey
    \/ SetSesame2PublicKey
    \/ Connect
    \/ ConnectConnected
    \/ ConnectServices
    \/ ConnectNotify
    \/ Disconnect
    \/ DisconnectStopped
    \/ DisconnectClosed
    \/ Lock
    \/ Unlock
    \/ Toggle
    \/ Click
    \/ OnCharacteristicChanged
    \/ WriteReturned
    \/ ConnectionLost
    \/ DisconnectedCallback

\* the session from its construction on: the application registers a callback and
\* the keys, the manager hands over the advertisement, the session connects, the
\* device publishes and responds, the application sends commands and disconnects
Spec == Init /\ [][Next]_vars

(***************************************************************************)
(* The session as an object driven through its public setters, the way the *)
(* unit tests of the repository drive it: without a connection.            *)
(***************************************************************************)
\* CHSesameLock.setCipher with a fresh BleCipher
SetCipher == \E tk \in Tokens :
    /\ tk \in Tokens
    /\ Call("setCipher", tk,
         [Cur EXCEPT !.cipher = Some(BleCipher(SessionKey(<<AppToken, tk>>), <<AppToken, tk>>))])

\* CHSesameLock.setCharacteristicTX with a BleakGATTCharacteristic
SetCharacteristicTX ==
    /\ ~characteristicTX
    /\ Call("setCharacteristicTX", None, [Cur EXCEPT !.characteristicTX = TRUE])

\* setMechStatus with a status
SetMechStatus == \E status \in MechStatuses(devKind) :
    /\ status \in MechStatuses(devKind)
    /\ Call("setMechStatus", status, setMechStatus(Cur, devKind, status))

NextApi ==
    \/ SetDeviceStatus
    \/ SetDeviceStatusCallback
    \/ SetAdvertisement
    \/ SetCipher
    \/ SetCharacteristicTX
    \/ SetMechStatus
    \/ Lock
    \/ Unlock
    \/ Toggle
    \/ Click

SpecApi == Init /\ [][NextApi]_vars

(***************************************************************************)
(* Specification SpecWait: callers of wait_for_login on a session whose    *)
(* status and status callback are set from outside.  In SpecWaitFair the   *)
(* event loop runs a woken caller: asyncio schedules every ready task.     *)
(***************************************************************************)
\* CHDevices.setDeviceStatusCallback, called with None, a callback that returns and
\* a callback that raises
WaitCallbacks == Callbacks \cup {"returns"}
SetDeviceStatusCallbackOf == \E cb \in WaitCallbacks :
    /\ cb \in {"none", "returns", "raises"}
    /\ Call("setDeviceStatusCallback", cb, [Cur EXCEPT !.statusCallback = cb])

NextWait ==
    \/ SetDeviceStatus
    \/ SetDeviceStatusCallbackOf
    \/ WaitForLogin
    \/ WaitForLoginReturned

SpecWait == Init /\ [][NextWait]_vars
SpecWaitFair == SpecWait /\ WF_vars(WaitForLoginReturned)

(***************************************************************************)
(* The fragment codec on its own: a transmitter built for one payload, and *)
(* a receiver of a fresh session that is fed its chunks in order.          *)
(***************************************************************************)
\* the longest payload: three full chunks and one byte
MaxPayloadLen == 58

\* a payload of n bytes, each byte its own position
Bytes(n) == [i \in 1..n |-> i]

\* the session, at rest
SessionIdle == InitSession /\ devKind = "lock"

FragOut(op, chunk, kind, data, exc) ==
    [op |-> op, chunk |-> chunk, kind |-> kind, data |-> data, exc |-> exc]

\* CHSesame2BleTransmiter(segment_type, data) and CHSesame2BleReceiver()
InitFrag ==
    /\ SessionIdle /\ CipherIdle /\ LibIdle
    /\ txKind \in {"plaintext", "ciphertext"}
    /\ txInput \in {Bytes(n) : n \in 0..MaxPayloadLen}
    /\ txWaitsend = Transmiter(txKind, txInput).waitsend
    /\ txFirst = Transmiter(txKind, txInput).isStartFirstCut
    /\ rxBuffer = <<>>
    /\ fragOut = FragOut("init", Nothing, None, Nothing, "none")
    /\ fragFed = 0
    /\ rxFed = <<>>

\* the transmitter as a record
CurTx == [kind |-> txKind, input |-> txInput, isStartFirstCut |-> txFirst,
          waitsend |-> txWaitsend]

\* the sender calls getChunk(): a chunk for the receiver, None at the end of the
\* payload and on every call after that, or an exception
GetChunk ==
    /\ fragOut.op \in {"init", "fed", "end"}
    /\ LET g == getChunk(CurTx)
       IN /\ txWaitsend' = g.tx.waitsend
          /\ txFirst' = g.tx.isStartFirstCut
          /\ fragOut' = IF g.exc # "none" THEN FragOut("raised", Nothing, None, Nothing, g.exc)
                        ELSE IF g.out = Nothing THEN [fragOut EXCEPT !.op = "end"]
                        ELSE FragOut("chunk", g.out, None, Nothing, "none")
    /\ UNCHANGED <<txInput, txKind, rxBuffer, fragFed, rxFed, sessionVars, cipherVars, libVars>>

\* the receiver is fed the chunk
Feed ==
    /\ fragOut.op = "chunk"
    /\ LET r == feed(rxBuffer, The(fragOut.chunk))
       IN /\ rxBuffer' = r.buffer
          /\ fragOut' = FragOut("fed", fragOut.chunk, r.kind, r.data, r.exc)
    /\ fragFed' = fragFed + 1
    /\ rxFed' = Append(rxFed, The(fragOut.chunk))
    /\ UNCHANGED <<txInput, txKind, txWaitsend, txFirst, sessionVars, cipherVars, libVars>>

NextFrag ==
    \/ GetChunk
    \/ Feed

SpecFrag == InitFrag /\ [][NextFrag]_vars

(***************************************************************************)
(* The cipher on its own: two BleCipher instances built with the same key  *)
(* and token, and the device that the key is shared with.                  *)
(***************************************************************************)
\* encrypt and decrypt calls on one instance in one run
MaxCalls == 3

Plains == {"p1", "p2"}
Instances == {"sender", "receiver"}

CipherOut(op, who, src, plain, ct, out) ==
    [op |-> op, who |-> who, src |-> src, plain |-> plain, ct |-> ct, out |-> out]

InitCipher ==
    /\ SessionIdle /\ FragIdle /\ LibIdle
    /\ sender = BleCipher("k1", "t1")
    /\ receiver = BleCipher("k1", "t1")
    /\ cipherOut = CipherOut("init", None, None, None, Nothing, Nothing)
    /\ encNonces = {}

InstanceOf(who) == IF who = "sender" THEN sender ELSE receiver
Other(who) == IF who = "sender" THEN "receiver" ELSE "sender"

\* the instance who becomes c
SetInstance(who, c) ==
    /\ sender' = IF who = "sender" THEN c ELSE sender
    /\ receiver' = IF who = "receiver" THEN c ELSE receiver

\* one instance encrypts a plaintext
Encrypt == \E who \in Instances, plain \in Plains :
    /\ InstanceOf(who).encryptCounter < MaxCalls
    /\ LET e == encrypt(InstanceOf(who), plain)
       IN /\ SetInstance(who, e.cipher)
          /\ cipherOut' = CipherOut("encrypt", who, None, plain, Some(e.out), Nothing)
    /\ UNCHANGED <<sessionVars, fragVars, encNonces, libVars>>

\* one instance decrypts what the other instance has just encrypted
DecryptPeer == \E who \in Instances :
    /\ cipherOut.op = "encrypt" /\ cipherOut.who = Other(who)
    /\ InstanceOf(who).decryptCounter < MaxCalls
    /\ LET d == decrypt(InstanceOf(who), The(cipherOut.ct))
       IN /\ SetInstance(who, d.cipher)
          /\ cipherOut' = CipherOut("decrypt", who, "peer", cipherOut.plain, cipherOut.ct, d.out)
    /\ UNCHANGED <<sessionVars, fragVars, encNonces, libVars>>

\* one instance decrypts a plaintext that the device has sealed under the shared
\* key with the counter ctr
DecryptDevice == \E who \in Instances, plain \in Plains, ctr \in 0..MaxCalls :
    /\ InstanceOf(who).decryptCounter < MaxCalls
    /\ LET c == InstanceOf(who)
           ct == CcmEncrypt(c.session_key, DeviceNonce(ctr, c.session_token), plain)
           d == decrypt(c, ct)
       IN /\ SetInstance(who, d.cipher)
          /\ cipherOut' = CipherOut("decrypt", who, "device", plain, Some(ct), d.out)
    /\ UNCHANGED <<sessionVars, fragVars, encNonces, libVars>>

NextCipher ==
    \/ Encrypt
    \/ DecryptPeer
    \/ DecryptDevice

SpecCipher == InitCipher /\ [][NextCipher]_vars

(***************************************************************************)
(* One cipher instance over the whole range of its counter field: encrypt  *)
(* and decrypt calls until the counters have left the field.               *)
(***************************************************************************)
InitNonce == InitCipher

\* sender encrypts a plaintext
NonceEncrypt == \E plain \in Plains :
    /\ sender.encryptCounter <= FieldSize
    /\ LET e == encrypt(sender, plain)
       IN /\ sender' = e.cipher
          /\ cipherOut' = IF e.exc # "none"
                          THEN CipherOut("raised", "sender", None, plain, Nothing, Nothing)
                          ELSE CipherOut("encrypt", "sender", None, plain, Some(e.out), Nothing)
          /\ encNonces' = IF e.exc # "none" THEN encNonces
                          ELSE encNonces \cup {e.out.nonce}
    /\ UNCHANGED <<sessionVars, fragVars, receiver, libVars>>

\* sender decrypts a plaintext that the device has sealed with its current counter
\* field, or with the next one
NonceDecrypt == \E plain \in Plains, ahead \in {0, 1} :
    /\ sender.decryptCounter <= FieldSize
    /\ LET ct == CcmEncrypt(sender.session_key,
                            DeviceNonce(sender.decryptCounter + ahead, sender.session_token),
                            plain)
           d == decrypt(sender, ct)
       IN /\ sender' = d.cipher
          /\ cipherOut' = CipherOut("decrypt", "sender", "device", plain, Some(ct), d.out)
    /\ UNCHANGED <<sessionVars, fragVars, receiver, encNonces, libVars>>

NextNonce ==
    \/ NonceEncrypt
    \/ NonceDecrypt

SpecNonce == InitNonce /\ [][NextNonce]_vars

(***************************************************************************)
(* Properties of the session, the codec and the cipher.                    *)
(***************************************************************************)
Commands == {"lock", "unlock", "toggle", "click"}

\* C1: lock, unlock, toggle and click, called while the device status is of the
\* NotLoggedIn class, raise RuntimeError, hand no chunk to the transport (the call
\* is not suspended in a write and the chunks on the wire are as before) and leave
\* the cipher, and with it the encrypt counter, as it was.
C1_CommandsFailWhenNotLoggedIn ==
    [][(/\ last'.op \in Commands
        /\ last'.seg = "start"
        /\ StatusValue(deviceStatus) = "UnLogin")
       => (/\ last'.err = "RuntimeError"
           /\ ~last'.pending
           /\ tasks' = tasks
           /\ written' = written
           /\ cipher' = cipher
           /\ deviceStatus' = deviceStatus)]_vars

\* C1: click has just failed on a bot whose status is Busy, with the transmit
\* characteristic set and a cipher that has encrypted before.
C1_Witness ==
    /\ last.op = "click" /\ last.err = "RuntimeError"
    /\ devKind = "bot"
    /\ deviceStatus = "Busy"
    /\ characteristicTX
    /\ cipher # Nothing /\ The(cipher).encryptCounter = 1

\* C2: in every reachable state the login event is set if and only if the device
\* status is of the LoggedIn class.
C2_LoginEventIffLoggedIn == loginEvent <=> (StatusValue(deviceStatus) = "Login")

\* the latest segment processed a response (login, success)
IsLoginSuccess(l) ==
    /\ l.op = "onCharacteristicChanged"
    /\ l.arg.notifyOp = "response" /\ l.arg.item = "login" /\ l.arg.result = "success"

\* the latest segment belongs to the processing of a publish (initial)
IsInitial(l) ==
    /\ l.op = "onCharacteristicChanged"
    /\ l.arg.notifyOp = "publish" /\ l.arg.item = "initial"

\* the status that a login response with this setting and status asks for
LoginStatus(kind, setting, status) ==
    IF kind = "lock" /\ setting.lockPosition = setting.unlockPosition THEN "NoSettings"
    ELSE IF status.isInLockRange THEN "Locked"
    ELSE "Unlocked"

\* C3: when a response (login, success) has been processed, the session holds the
\* setting and the status of the response, its device status is NoSettings for a
\* lock whose lock position equals its unlock position and otherwise Locked in the
\* lock range and Unlocked out of it, and the login event is set.
C3_LoginResponseLogsIn ==
    [][IsLoginSuccess(last')
       => (/\ mechSetting' = Some(last'.arg.setting)
           /\ mechStatus' = Some(last'.arg.status)
           /\ deviceStatus' = LoginStatus(devKind, last'.arg.setting, last'.arg.status)
           /\ loginEvent')]_vars

\* the chunks of one complete login frame: plaintext, sync, login
LoginFrame == [seg |-> "plaintext", payload |-> Payload("sync", "login", LoginLen), ct |-> Nothing]
IsLoginFrame(w) ==
    /\ Len(w) = 4
    /\ \A i \in 1..4 : w[i].frame = LoginFrame /\ w[i].size = Mtu + 1
    /\ w[1].header = 1 /\ w[2].header = 0 /\ w[3].header = 0
    /\ w[4].header = 2 * SegmentValue("plaintext")

\* C4: when a publish (initial) is processed on a registered session whose keys are
\* set, the handler stores the token of the frame, installs a fresh cipher (both
\* counters 0, session token app_token || sesame_token), sets the status to
\* BleLogining and starts to write the login frame; when it returns without an
\* error of the transport, exactly the login frame (plaintext, sync, login) is on
\* the wire.
C4_InitialPublishStartsLogin ==
    [][(IsInitial(last') /\ registered /\ key.secretKey /\ key.sesame2PublicKey)
       => (/\ last'.seg = "start"
              => (/\ sesameToken' = last'.arg.token
                  /\ cipher' = Some(BleCipher(SessionKey(<<AppToken, last'.arg.token>>),
                                              <<AppToken, last'.arg.token>>))
                  /\ deviceStatus' = "BleLogining"
                  /\ last'.pending
                  /\ Len(written') = 1 /\ written'[1].frame = LoginFrame)
           /\ (last'.seg = "write" /\ ~last'.pending /\ last'.err = "none")
              => IsLoginFrame(written'))]_vars

\* C5: when a publish (initial) is processed on a session that is not registered,
\* lock or bot, the status becomes ReadyToRegister, the handler raises
\* NotImplementedError, nothing is written and no cipher is installed.
C5_UnregisteredInitialPublish ==
    [][(IsInitial(last') /\ ~registered)
       => (/\ deviceStatus' = "ReadyToRegister"
           /\ last'.err = "NotImplementedError"
           /\ ~last'.pending
           /\ written' = written
           /\ cipher' = Nothing)]_vars

\* C6: the disconnected callback of the client, and setAdvertisement(None), leave
\* the session without an advertisement, in status NoBleSignal, with rssi -100 and
\* with the login event clear.
C6_ConnectionLossResets ==
    [][(\/ last'.op = "onConnectionStateChange" /\ link.callback
        \/ last'.op = "setAdvertisement" /\ last'.arg = Nothing)
       => (/\ advertisement' = Nothing
           /\ deviceStatus' = "NoBleSignal"
           /\ rssi' = NoSignalRssi
           /\ ~loginEvent')]_vars

\* C7: after disconnect() has returned, and after the loss of the connection has
\* been handled, the session holds no cipher.
C7_CipherDestroyedOnDisconnect ==
    [][(\/ last'.op = "disconnect" /\ ~last'.pending
        \/ last'.op = "onConnectionStateChange")
       => cipher' = Nothing]_vars

\* C8: for every kind and every payload, the empty payload included, no call of
\* getChunk() or feed() raises, the receiver returns (None, None) for every chunk
\* before the last one and (kind, payload) for the last one.
C8_FragmentRoundTrip ==
    /\ fragOut.exc = "none"
    /\ (fragOut.op = "fed" /\ Len(txWaitsend) > 1)
       => (fragOut.kind = None /\ fragOut.data = Nothing)
    /\ (fragOut.op = "fed" /\ Len(txWaitsend) <= 1)
       => (fragOut.kind = txKind /\ fragOut.data = Some(txInput))
    /\ fragOut.op = "end"
       => (fragFed >= 1 /\ fragOut.kind = txKind /\ fragOut.data = Some(txInput))

\* the instance who, after the step
After(who) == IF who = "sender" THEN sender' ELSE receiver'

\* the decrypt of this step is of what the other instance has just encrypted, and
\* the encrypt counter used for it equals the decrypt counter of the instance
AlignedPeerDecrypt ==
    /\ cipherOut'.op = "decrypt" /\ cipherOut'.src = "peer"
    /\ The(cipherOut'.ct).nonce.low = InstanceOf(cipherOut'.who).decryptCounter

\* C9 as stated: for two instances built with the same key and token, whenever the
\* encrypt counter of the sender equals the decrypt counter of the receiver,
\* receiver.decrypt(sender.encrypt(plain)) returns plain.
C9_CipherRoundTrip ==
    [][AlignedPeerDecrypt => cipherOut'.out = Some(cipherOut'.plain)]_vars

\* C9, amended: for two instances built with the same key and token,
\* receiver.decrypt(sender.encrypt(plain)) fails for every plaintext and all
\* counters, aligned or not, since encrypt sets the top bit of the counter field and
\* decrypt clears it; decrypt returns plain exactly for a ciphertext sealed under
\* the same key and token with the top bit clear and the counter equal to the
\* decrypt counter of the instance.
C9_CipherDirections ==
    [][cipherOut'.op = "decrypt"
       => (/\ cipherOut'.src = "peer" => cipherOut'.out = Nothing
           /\ cipherOut'.src = "device"
              => IF The(cipherOut'.ct).nonce.low = InstanceOf(cipherOut'.who).decryptCounter
                 THEN cipherOut'.out = Some(cipherOut'.plain)
                 ELSE cipherOut'.out = Nothing)]_vars

C9_Witness ==
    /\ cipherOut.op = "decrypt" /\ cipherOut.src = "peer" /\ cipherOut.who = "receiver"
    /\ The(cipherOut.ct).nonce.low = 1
    /\ sender.encryptCounter = 2 /\ receiver.decryptCounter = 2
    /\ cipherOut.out = Nothing

\* C10: both counters of a cipher start at 0; a successful encrypt adds 1 to the
\* encrypt counter and leaves the decrypt counter, a successful decrypt adds 1 to
\* the decrypt counter and leaves the encrypt counter, and no counter decreases.
C10_Counters ==
    /\ \A who \in Instances :
          InstanceOf(who).encryptCounter = 0 /\ InstanceOf(who).decryptCounter = 0
    /\ [][/\ cipherOut'.op = "encrypt"
             => (/\ After(cipherOut'.who).encryptCounter
                       = InstanceOf(cipherOut'.who).encryptCounter + 1
                 /\ After(cipherOut'.who).decryptCounter
                       = InstanceOf(cipherOut'.who).decryptCounter)
          /\ (cipherOut'.op = "decrypt" /\ cipherOut'.out # Nothing)
             => (/\ After(cipherOut'.who).decryptCounter
                       = InstanceOf(cipherOut'.who).decryptCounter + 1
                 /\ After(cipherOut'.who).encryptCounter
                       = InstanceOf(cipherOut'.who).encryptCounter)
          /\ \A who \in Instances :
                /\ After(who).encryptCounter >= InstanceOf(who).encryptCounter
                /\ After(who).decryptCounter >= InstanceOf(who).decryptCounter]_vars

C10_Witness ==
    /\ cipherOut.op = "decrypt" /\ cipherOut.who = "sender" /\ cipherOut.out # Nothing
    /\ sender.encryptCounter = 2 /\ sender.decryptCounter = 1
    /\ receiver.encryptCounter = 0 /\ receiver.decryptCounter = 0

\* C11: for one cipher instance and any number of calls, every nonce of encrypt has
\* the top bit of its counter field set, every nonce of decrypt has it clear, and
\* no encrypt call uses the nonce of an earlier encrypt call.
C11_NonceUniqueness ==
    [][/\ cipherOut'.op = "encrypt"
          => (/\ The(cipherOut'.ct).nonce.top = 1
              /\ The(cipherOut'.ct).nonce \notin encNonces)
       /\ cipherOut'.op = "decrypt"
          => DecryptNonce(sender).top = 0]_vars

\* C12: a decrypt call that fails authentication leaves the decrypt counter of the
\* instance at its value.
C12_FailedDecryptKeepsCounter ==
    [][(cipherOut'.op = "decrypt" /\ cipherOut'.out = Nothing)
       => After(cipherOut'.who).decryptCounter
             = InstanceOf(cipherOut'.who).decryptCounter]_vars

\* C13: a ciphertext command that fails before every chunk of its frame has been
\* handed to the transport leaves the encrypt counter at the value it had when the
\* command was called: the value of a command that fails before its first write,
\* and the counter that the frame in flight was sealed with otherwise.
C13_FailedSendKeepsCounter ==
    [][(last'.op \in Commands /\ last'.err # "none" /\ cipher # Nothing)
       => IF last'.seg = "start"
          THEN The(cipher').encryptCounter = The(cipher).encryptCounter
          ELSE The(cipher').encryptCounter
                  = The(written[Len(written)].frame.ct).nonce.low]_vars

(***************************************************************************)
(* A session that has logged in, with room for several coroutines that     *)
(* send at the same time: the commands of callers and the login that an    *)
(* inbound publish (initial) starts.                                       *)
(***************************************************************************)
\* coroutines of one session that can be suspended in a write at the same time
MaxSenders == 2

\* the session variables have the values of the record s
At(s) ==
    /\ deviceStatus = s.deviceStatus
    /\ loginEvent = s.loginEvent
    /\ statusCallback = s.statusCallback
    /\ advertisement = s.advertisement
    /\ rssi = s.rssi
    /\ registered = s.registered
    /\ key = s.key
    /\ sesameToken = s.sesameToken
    /\ cipher = s.cipher
    /\ characteristicTX = s.characteristicTX
    /\ mechStatus = s.mechStatus
    /\ mechSetting = s.mechSetting
    /\ intention = s.intention
    /\ link = s.link
    /\ connects = s.connects
    /\ written = s.written

\* the chunks of the login frame, as write_gatt_char was given them
LoginChunks ==
    [i \in 1..4 |-> [header |-> IF i = 1 THEN 1
                                ELSE IF i = 4 THEN 2 * SegmentValue("plaintext") ELSE 0,
                     size |-> Mtu + 1,
                     frame |-> LoginFrame]]

\* the session of kind after setAdvertisement, the key setters, connect(), the
\* publish (initial) with token tk, the login frame and the decrypt of the login
\* response
LoggingIn(kind, tk) ==
    [deviceStatus |-> "BleLogining", loginEvent |-> FALSE, statusCallback |-> "none",
     advertisement |-> Some([rssi |-> AdvRssi, isRegistered |-> TRUE]),
     rssi |-> AdvRssi, registered |-> TRUE,
     key |-> [secretKey |-> TRUE, sesame2PublicKey |-> TRUE],
     sesameToken |-> tk,
     cipher |-> Some([BleCipher(SessionKey(<<AppToken, tk>>), <<AppToken, tk>>)
                         EXCEPT !.decryptCounter = 1]),
     characteristicTX |-> TRUE, mechStatus |-> Nothing, mechSetting |-> Nothing,
     intention |-> IF kind = "lock" THEN None ELSE "idle",
     link |-> [state |-> "connected", subscribed |-> TRUE, callback |-> TRUE],
     connects |-> 1, written |-> LoginChunks, exc |-> "none", cont |-> Nothing,
     observed |-> <<>>, woken |-> FALSE]

\* the session once the login response r has been processed
LoggedIn(kind, tk, r) == onLoginResponse(LoggingIn(kind, tk), kind, r)

\* a logged-in session in which n coroutines can be suspended at the same time
InitLoggedIn(n) ==
    /\ devKind \in {"lock", "bot"}
    /\ \E tk \in Tokens, r \in LoginResponses(devKind) :
          r.result = "success" /\ At(LoggedIn(devKind, tk, r))
    /\ tasks = [i \in 1..n |-> Nothing]
    /\ last = [op |-> "init", arg |-> None, seg |-> "start", err |-> "none", pending |-> FALSE,
               observed |-> <<>>]
    /\ FragIdle /\ CipherIdle /\ LibIdle

InitSend == InitLoggedIn(MaxSenders)

\* the transport delivers a publish (initial): the handler starts a login
OnInitialPublish == \E frame \in Frames(cipher, InitialPublishes) :
    /\ link.state = "connected" /\ link.subscribed
    /\ Start("onCharacteristicChanged", FrameTag(frame),
             onCharacteristicChanged(Cur, devKind, frame))

NextSend ==
    \/ Lock
    \/ Unlock
    \/ Toggle
    \/ Click
    \/ OnInitialPublish
    \/ WriteReturned

SpecSend == InitSend /\ [][NextSend]_vars

\* the same session with one caller, which awaits one command after another
InitCommand == InitLoggedIn(1)
SpecCommand == InitCommand /\ [][NextSend]_vars

\* C14: the chunks that the device has of the frame it is receiving are chunks of
\* one frame: no chunk of another frame is written between the first and the last
\* chunk of a frame.
C14_FramesNotInterleaved ==
    \A i \in 1..Len(written) : written[i].frame = written[1].frame

\* C15: the handling of an inbound frame begins only when the handling of every
\* earlier frame has completed: no onCharacteristicChanged is suspended when
\* another one starts.
C15_FramesHandledInOrder ==
    [][(last'.op = "onCharacteristicChanged" /\ last'.seg = "start")
       => \A i \in Slots :
             tasks[i] = Nothing \/ The(tasks[i]).op # "onCharacteristicChanged"]_vars


\* C16: in every run, a frame written with the kind plaintext is the login command
\* (sync, login), and a frame that carries lock, unlock or click is written with
\* the kind ciphertext and its payload is what encrypt of the session cipher
\* returned for it when its first chunk was written
C16_FrameKinds ==
    [][/\ \A i \in 1..Len(written') :
             LET f == written'[i].frame
             IN /\ f.seg = "plaintext" => f = LoginFrame
                /\ f.payload.item_code \in {"lock", "unlock", "click"}
                   => f.seg = "ciphertext" /\ f.ct # Nothing
       /\ (last'.op \in Commands /\ last'.seg = "start" /\ last'.pending)
          => LET f == written'[Len(written')].frame
             IN /\ written'[Len(written')].header % 2 = 1
                /\ f.payload.item_code \in {"lock", "unlock", "click"}
                /\ cipher # Nothing
                /\ f.ct = Some(encrypt(The(cipher), f.payload).out)]_vars

\* after the login command, a command has returned with its whole frame written
C16_Witness ==
    /\ last.op \in Commands /\ ~last.pending /\ last.err = "none"
    /\ Len(written) > 1
    /\ written[1].header % 2 = 1
    /\ \A i \in 1..Len(written) :
          /\ written[i].frame.payload.item_code \in {"lock", "unlock", "click"}
          /\ written[i].frame.seg = "ciphertext"
    /\ written[Len(written)].header \div 2 = SegmentValue("ciphertext")

\* C17: for every current status s and every status t, setDeviceStatus(t) calls the
\* registered callback zero times when t = s and exactly once when t # s, and the
\* callback, called with the session, reads the new status t from it
C17_StatusCallback ==
    [][(last'.op = "setDeviceStatus" /\ statusCallback # "none")
       => IF last'.arg = deviceStatus
          THEN last'.observed = <<>>
          ELSE last'.observed = <<last'.arg>> /\ deviceStatus' = last'.arg]_vars

\* setDeviceStatus has called a callback that returns, with a status that differs
\* from the one before
C17_Witness ==
    /\ last.op = "setDeviceStatus"
    /\ statusCallback = "returns"
    /\ last.observed = <<deviceStatus>>
    /\ last.arg = deviceStatus

\* a caller is suspended in wait_for_login in slot i
Waiting(i) == i \in Slots /\ tasks[i] # Nothing /\ The(tasks[i]).op = "wait_for_login"

\* C18: a caller blocked in wait_for_login while the status of the session is of
\* the LoggedIn class is eventually released
C18_WaitForLoginReleased ==
    \A i \in 1..MaxTasks :
        (Waiting(i) /\ StatusValue(deviceStatus) = "Login") ~> ~Waiting(i)

(***************************************************************************)
(* Specification SpecMech: a new session whose mechanical setting and      *)
(* mechanical status a caller sets.  Specification SpecToggle: a new      *)
(* session and a logged-in session whose status and mechanical status a    *)
(* caller sets, and which is toggled.                                      *)
(***************************************************************************)
\* the settings and statuses setMechSetting and setMechStatus are called with: every
\* combination of the two range flags, for the lock the idle target, the two
\* positions of the settings and another target, for the bot every motor status
CallerMechSettings ==
    MechSettings \cup {[lockPosition |-> 20, unlockPosition |-> 10]}
CallerMechStatuses(kind) ==
    {[target |-> t, motorStatus |-> m, isInLockRange |-> l, isInUnlockRange |-> u] :
        t \in (IF kind = "lock" THEN {IdleTarget, 10, 20, 30} ELSE {0}),
        m \in (IF kind = "lock" THEN {0} ELSE 0..4),
        l \in BOOLEAN, u \in BOOLEAN}

\* CHSesame2.setMechSetting / CHSesameBot.setMechSetting is called
SetMechSetting == \E setting \in CallerMechSettings :
    /\ setting \in CallerMechSettings
    /\ Call("setMechSetting", setting, setMechSetting(Cur, setting))

\* CHSesame2.setMechStatus / CHSesameBot.setMechStatus is called
SetMechStatusOf == \E status \in CallerMechStatuses(devKind) :
    /\ status \in CallerMechStatuses(devKind)
    /\ Call("setMechStatus", status, setMechStatus(Cur, devKind, status))

NextMech ==
    \/ SetMechSetting
    \/ SetMechStatusOf

SpecMech == Init /\ [][NextMech]_vars

\* a caller sets the status of the session to one of a status of each class
ToggleStatuses == {"NoBleSignal", "Locked"}
SetDeviceStatusOf == \E status \in ToggleStatuses :
    /\ status \in CHSesame2Status
    /\ Call("setDeviceStatus", status, setDeviceStatus(Cur, status))

InitToggle == Init \/ InitSend

NextToggle ==
    \/ SetDeviceStatusOf
    \/ SetMechStatusOf
    \/ Toggle
    \/ WriteReturned

SpecToggle == InitToggle /\ [][NextToggle]_vars

\* the session can send: it has a cipher, a TX characteristic and a live connection
CanSend == cipher # Nothing /\ characteristicTX /\ link.state = "connected"

\* the step writes the first chunk of one frame that carries the command item, and
\* raises nothing
SendsOne(item) ==
    /\ Len(written') = 1
    /\ written'[1].frame.payload.item_code = item
    /\ written'[1].header % 2 = 1
    /\ last'.err = "none" /\ last'.pending

\* C19: toggle called in a status of the LoggedIn class sends exactly one command,
\* unlock if the mech status has in_lock_range set, otherwise lock if it has
\* in_unlock_range set; with no mech status, or a mech status with neither flag, it
\* fails with the status-unknown error (RuntimeError) and sends nothing; on the lock
\* and on the bot
C19_Toggle ==
    [][(last'.op = "toggle" /\ last'.seg = "start" /\ StatusValue(deviceStatus) = "Login")
       => IF mechStatus = Nothing
          THEN last'.err = "RuntimeError" /\ written' = written
          ELSE IF The(mechStatus).isInLockRange
          THEN CanSend => SendsOne("unlock")
          ELSE IF The(mechStatus).isInUnlockRange
          THEN CanSend => SendsOne("lock")
          ELSE last'.err = "RuntimeError" /\ written' = written]_vars

\* C20: after setMechStatus(status) on a lock session the intention is idle if the
\* target of the status is -32768, with or without a setting; otherwise
\* movingToUnknownTarget if no setting is known; otherwise, if the lock position L
\* and the unlock position U of the setting differ, locking if the target is L and
\* unlocking if the target is U
C20_LockIntention ==
    [][(last'.op = "setMechStatus" /\ devKind = "lock")
       => LET target == last'.arg.target
          IN IF target = IdleTarget THEN intention' = "idle"
             ELSE IF mechSetting = Nothing THEN intention' = "movingToUnknownTarget"
             ELSE The(mechSetting).lockPosition # The(mechSetting).unlockPosition
                  => /\ target = The(mechSetting).lockPosition => intention' = "locking"
                     /\ target = The(mechSetting).unlockPosition
                        => intention' = "unlocking"]_vars

\* setMechStatus on a lock with a setting whose two positions differ, with the
\* unlock position as the target
C20_Witness ==
    /\ devKind = "lock"
    /\ last.op = "setMechStatus"
    /\ mechSetting # Nothing
    /\ The(mechSetting).lockPosition # The(mechSetting).unlockPosition
    /\ last.arg.target = The(mechSetting).unlockPosition
    /\ intention = "unlocking"

\* C21: setAdvertisement with an advertisement of a device that is not registered
\* fails with the initial-configuration-needed error (RuntimeError) and leaves the
\* stored advertisement, the device status, the rssi and the registered flag of the
\* session as they were before the call
C21_UnregisteredAdvertisement ==
    [][(/\ last'.op = "setAdvertisement"
        /\ last'.arg # Nothing
        /\ ~The(last'.arg).isRegistered)
       => /\ last'.err = "RuntimeError"
          /\ advertisement' = advertisement
          /\ deviceStatus' = deviceStatus
          /\ rssi' = rssi
          /\ registered' = registered]_vars

\* C22: when connect() fails after it has asked the peripheral to connect (the
\* connect returns false or raises, the GATT discovery fails or the subscription
\* to RX fails), the error reaches the caller, the device status becomes
\* NoBleSignal, and a registered status callback is called for that transition
C22_ConnectFailure ==
    [][(/\ last'.op = "connect"
        /\ last'.seg \in {"connect", "services", "notify"}
        /\ last'.err \in {"BleakError", "RuntimeError", "TypeError"})
       => /\ deviceStatus' = "NoBleSignal"
          /\ statusCallback # "none" => last'.observed = <<"NoBleSignal">>]_vars

\* the frame of the handler that has just run was sealed, and not under the key and
\* the nonce the cipher of the session decrypts the next frame with
FailsAuthentication ==
    /\ last'.op = "onCharacteristicChanged" /\ last'.seg = "start"
    /\ last'.arg.sealed # Nothing
    /\ cipher # Nothing
    /\ \/ The(last'.arg.sealed).key # The(cipher).session_key
       \/ The(last'.arg.sealed).nonce # DecryptNonce(The(cipher))

\* C23: when an inbound frame fails the AES-CCM authentication, the notification
\* handler drops it: it raises nothing, and the device status, the mech status, the
\* mech setting, the intention and the login event are as before
C23_BadFrameDropped ==
    [][FailsAuthentication
       => /\ last'.err = "none"
          /\ UNCHANGED <<deviceStatus, mechStatus, mechSetting, intention, loginEvent>>]_vars

(***************************************************************************)
(* ble.py: the BLE manager.  A scanned peripheral (bleak's BLEDevice) is a *)
(* record of its address, its name ("None", "uuid" for the base64 text of  *)
(* 16 bytes, "other"), which keys its metadata has, whether its uuids hold *)
(* SERVICE_UUID, and its manufacturer data: Nothing for an empty dict,     *)
(* else the bytes of its first value.                                      *)
(***************************************************************************)
\* peripherals in one scan result
MaxScan == 2

\* str.lower() on an address: an address is its text in lower case and whether it
\* is written in upper case
Lower(address) == [address EXCEPT !.upper = FALSE]

\* CHProductModel.getByValue: the member with that productType, or None for the
\* NotImplementedError
getByValue(val) ==
    IF val = 0 THEN "SS2" ELSE IF val = 1 THEN "WM2" ELSE IF val = 2 THEN "SesameBot1"
    ELSE IF val = 4 THEN "SS4" ELSE None

\* CHProductModel.deviceFactory: the class of the session, or None for the
\* NotImplementedError
deviceFactory(model) ==
    IF model \in {"SS2", "SS4"} THEN "CHSesame2"
    ELSE IF model = "SesameBot1" THEN "CHSesameBot" ELSE None

\* BLEAdvertisement.__init__: the advertisement, or the exception it raises
BLEAdvertisement(dev) ==
    IF dev.manufacturer = Nothing THEN [exc |-> "StopIteration", adv |-> Nothing]
    ELSE LET advBytes == The(dev.manufacturer)
         IN IF Len(advBytes) < 1 THEN [exc |-> "IndexError", adv |-> Nothing]
            ELSE IF getByValue(advBytes[1]) = None
            THEN [exc |-> "NotImplementedError", adv |-> Nothing]
            ELSE IF Len(advBytes) < 3 THEN [exc |-> "IndexError", adv |-> Nothing]
            ELSE IF getByValue(advBytes[1]) = "WM2" /\ Len(advBytes) < 9
            THEN [exc |-> "ValueError", adv |-> Nothing]
            ELSE IF getByValue(advBytes[1]) # "WM2" /\ dev.name # "uuid"
            THEN [exc |-> "ValueError", adv |-> Nothing]
            ELSE [exc |-> "none",
                  adv |-> Some([address |-> dev.address,
                                productModel |-> getByValue(advBytes[1]),
                                isRegistered |-> advBytes[3] % 2 = 1])]

\* CHBleManager.device_factory: the session for a peripheral (its class and its
\* advertisement), or the exception it raises
device_factory(dev) ==
    IF dev.name = None THEN [exc |-> "ValueError", obj |-> Nothing]
    ELSE IF dev.metadata # "full" THEN [exc |-> "ValueError", obj |-> Nothing]
    ELSE IF ~dev.service THEN [exc |-> "ValueError", obj |-> Nothing]
    ELSE LET a == BLEAdvertisement(dev)
         IN IF a.exc # "none" THEN [exc |-> a.exc, obj |-> Nothing]
            ELSE IF deviceFactory(The(a.adv).productModel) = None
            THEN [exc |-> "NotImplementedError", obj |-> Nothing]
            ELSE IF ~The(a.adv).isRegistered
            THEN [exc |-> "RuntimeError", obj |-> Nothing]
            ELSE [exc |-> "none",
                  obj |-> Some([class |-> deviceFactory(The(a.adv).productModel),
                                advertisement |-> The(a.adv)])]

\* an exception that leaves a coroutine: a StopIteration becomes a RuntimeError
FromCoroutine(exc) == IF exc = "StopIteration" THEN "RuntimeError" ELSE exc

\* ret[address] = obj on a dict kept as a set of entries
DictSet(ret, address, obj) ==
    {e \in ret : e.address # address} \cup {[address |-> address, obj |-> obj]}

\* the for loop of CHBleManager.scan from the i-th peripheral on
RECURSIVE scanLoop(_, _, _)
scanLoop(devices, i, ret) ==
    IF i > Len(devices) THEN [exc |-> "none", ret |-> ret]
    ELSE LET r == device_factory(devices[i])
         IN IF r.exc \in {"NotImplementedError", "ValueError"}
            THEN scanLoop(devices, i + 1, ret)
            ELSE IF r.exc # "none" THEN [exc |-> FromCoroutine(r.exc), ret |-> ret]
            ELSE scanLoop(devices, i + 1, DictSet(ret, devices[i].address, The(r.obj)))

\* CHBleManager.scan: discover is what BleakScanner.discover does, "BleakError" or
\* "ok" with the peripherals devices
scan(discover, devices) ==
    IF discover = "BleakError" THEN [exc |-> "none", ret |-> {}]
    ELSE scanLoop(devices, 1, {})

\* next(d for d in devices if d.address.lower() == identifier.lower()), from the
\* i-th peripheral on
RECURSIVE FirstMatch(_, _, _)
FirstMatch(devices, i, identifier) ==
    IF i > Len(devices) THEN Nothing
    ELSE IF Lower(devices[i].address) = Lower(identifier) THEN Some(devices[i])
    ELSE FirstMatch(devices, i + 1, identifier)

\* CHBleManager.scan_by_address after discover has returned devices
scan_by_address(devices, identifier) ==
    LET device == FirstMatch(devices, 1, identifier)
    IN IF device = Nothing THEN [exc |-> "ConnectionRefusedError", obj |-> Nothing]
       ELSE LET r == device_factory(The(device))
            IN [exc |-> FromCoroutine(r.exc), obj |-> r.obj]

\* the addresses of the peripherals and of the callers: one in both cases, and
\* another one
Addresses == {[text |-> "aa:01", upper |-> FALSE], [text |-> "aa:01", upper |-> TRUE],
              [text |-> "bb:02", upper |-> FALSE]}

\* a peripheral but for its address
Shape(name, metadata, service, manufacturer) ==
    [name |-> name, metadata |-> metadata, service |-> service,
     manufacturer |-> manufacturer]

\* the manufacturer data of a registered lock
LockBytes == <<0, 0, 1>>

\* what a scan finds: registered locks and a registered bot; an unregistered lock,
\* an unknown product type, a product without a session class, manufacturer data
\* of two bytes, of no byte, and none at all; no name, a name that is no base64 of
\* 16 bytes, no metadata, metadata without a key, and uuids without SERVICE_UUID
Shapes ==
    {Shape("uuid", "full", TRUE, Some(b)) :
        b \in {LockBytes, <<2, 0, 1>>, <<4, 0, 1>>, <<0, 0, 0>>, <<9, 0, 1>>,
               <<1, 0, 1, 0, 0, 0, 0, 0, 0>>, <<0, 0>>, <<>>}}
    \cup {Shape("uuid", "full", TRUE, Nothing),
          Shape(None, "full", TRUE, Some(LockBytes)),
          Shape("other", "full", TRUE, Some(LockBytes)),
          Shape("uuid", None, TRUE, Some(LockBytes)),
          Shape("uuid", "no uuids", TRUE, Some(LockBytes)),
          Shape("uuid", "no manufacturer_data", TRUE, Some(LockBytes)),
          Shape("uuid", "full", FALSE, Some(LockBytes))}
Peripherals ==
    {[address |-> a, name |-> p.name, metadata |-> p.metadata, service |-> p.service,
      manufacturer |-> p.manufacturer] : a \in Addresses, p \in Shapes}
ScanResults == UNION {[1..n -> Peripherals] : n \in 0..MaxScan}

\* a caller awaits scan(): BleakScanner.discover() raises a BleakError or returns
\* devices
Scan == \E discover \in {"ok", "BleakError"}, devices \in ScanResults :
    /\ scanOut.op = "init"
    /\ scanOut' = [op |-> "scan", discover |-> discover, devices |-> devices,
                   identifier |-> None, exc |-> scan(discover, devices).exc,
                   ret |-> scan(discover, devices).ret]
    /\ UNCHANGED <<sessionVars, fragVars, cipherVars, factory, helperOut>>

\* a caller awaits scan_by_address(identifier), and discover() returns devices
ScanByAddress == \E identifier \in Addresses, devices \in ScanResults :
    /\ scanOut.op = "init"
    /\ scanOut' = [op |-> "scan_by_address", discover |-> "ok", devices |-> devices,
                   identifier |-> identifier,
                   exc |-> scan_by_address(devices, identifier).exc,
                   ret |-> scan_by_address(devices, identifier).obj]
    /\ UNCHANGED <<sessionVars, fragVars, cipherVars, factory, helperOut>>

InitScan == SessionIdle /\ FragIdle /\ CipherIdle /\ LibIdle

NextScan ==
    \/ Scan
    \/ ScanByAddress

SpecScan == InitScan /\ [][NextScan]_vars

\* the peripheral decodes to a session: it has a name that encodes a device id,
\* metadata with the uuids and the manufacturer data, SERVICE_UUID, manufacturer
\* data of at least 3 bytes with a known product type that has a session class, and
\* the registered flag
Decodes(dev) ==
    /\ dev.name = "uuid" /\ dev.metadata = "full" /\ dev.service
    /\ dev.manufacturer # Nothing
    /\ Len(The(dev.manufacturer)) >= 3
    /\ The(dev.manufacturer)[1] \in {0, 2, 4}
    /\ The(dev.manufacturer)[3] % 2 = 1

\* C24: scan() never fails because of a peripheral: it returns a map with exactly
\* one session for each address of a peripheral that decodes, and skips every
\* peripheral that does not; with a BleakError of the scanner the map is empty
C24_ScanSkipsBadPeripherals ==
    scanOut.op = "scan"
    => /\ scanOut.exc = "none"
       /\ IF scanOut.discover = "BleakError" THEN scanOut.ret = {}
          ELSE LET devices == scanOut.devices
                   good == {i \in 1..Len(devices) : Decodes(devices[i])}
               IN /\ {e.address : e \in scanOut.ret} = {devices[i].address : i \in good}
                  /\ Cardinality(scanOut.ret) = Cardinality({devices[i].address : i \in good})
                  /\ \A e \in scanOut.ret : \E i \in good :
                        /\ devices[i].address = e.address
                        /\ e.obj.advertisement.address = e.address

\* the peripheral has all that is read before its product type, and a product type
\* that is not known
UnknownProduct(dev) ==
    /\ dev.name # None /\ dev.metadata = "full" /\ dev.service
    /\ dev.manufacturer # Nothing
    /\ Len(The(dev.manufacturer)) >= 1
    /\ The(dev.manufacturer)[1] \notin {0, 1, 2, 4}

\* C25: scan_by_address(addr) takes the first scanned peripheral whose address is
\* addr but for the case; it fails with ConnectionRefusedError if there is none,
\* with NotImplementedError if the product type of that peripheral is unknown, with
\* ValueError if that peripheral does not decode for another reason, and
\* otherwise returns a session for it
C25_ScanByAddress ==
    scanOut.op = "scan_by_address"
    => LET devices == scanOut.devices
           Matches(i) == Lower(devices[i].address) = Lower(scanOut.identifier)
           first == {i \in 1..Len(devices) :
                        Matches(i) /\ \A j \in 1..(i - 1) : ~Matches(j)}
       IN IF first = {} THEN scanOut.exc = "ConnectionRefusedError"
          ELSE \A i \in first :
                  IF Decodes(devices[i])
                  THEN /\ scanOut.exc = "none"
                       /\ scanOut.ret # Nothing
                       /\ The(scanOut.ret).advertisement.address = devices[i].address
                  ELSE IF UnknownProduct(devices[i])
                  THEN scanOut.exc = "NotImplementedError"
                  ELSE scanOut.exc = "ValueError"

\* ---------------------------------------------------------------------------
\* The local key (crypto.py): AppKeyFactory.get_instance called from several
\* threads. A thread may be preempted between any two of its steps.

\* a factory without mutual exclusion
LockedNever(f) == FALSE
\* cls.__lock is held by a thread
Locked(f) == f.lock # NoThread
\* the step of thread t moves it to pc
Goto(f, t, pc) == [f EXCEPT !.pc[t] = pc]

\* with cls.__lock: the thread enters when the lock is free
GetInstanceAcquire == \E t \in Threads :
    /\ factory.pc[t] = "idle"
    /\ Len(factory.ret[t]) < MaxGets
    /\ ~Locked(factory)
    /\ factory' = [Goto(factory, t, "test") EXCEPT !.lock = t]
    /\ UNCHANGED <<sessionVars, fragVars, cipherVars, scanOut, helperOut>>

\* if cls.__instance is None
GetInstanceTest == \E t \in Threads :
    /\ factory.pc[t] = "test"
    /\ factory' = Goto(factory, t, IF factory.instance = Nothing THEN "new" ELSE "exit")
    /\ UNCHANGED <<sessionVars, fragVars, cipherVars, scanOut, helperOut>>

\* AppKey.__private_new__(): a new object with a fresh key pair and app token
GetInstanceNew == \E t \in Threads :
    /\ factory.pc[t] = "new"
    /\ factory' = [Goto(factory, t, "store") EXCEPT !.created = @ + 1,
                                                     !.new[t] = Some(factory.created + 1)]
    /\ UNCHANGED <<sessionVars, fragVars, cipherVars, scanOut, helperOut>>

\* cls.__instance = <the new object>
GetInstanceStore == \E t \in Threads :
    /\ factory.pc[t] = "store"
    /\ factory' = [Goto(factory, t, "exit") EXCEPT !.instance = factory.new[t],
                                                    !.new[t] = Nothing]
    /\ UNCHANGED <<sessionVars, fragVars, cipherVars, scanOut, helperOut>>

\* the end of the with block releases the lock
GetInstanceExit == \E t \in Threads :
    /\ factory.pc[t] = "exit"
    /\ factory' = [Goto(factory, t, "return") EXCEPT !.lock = NoThread]
    /\ UNCHANGED <<sessionVars, fragVars, cipherVars, scanOut, helperOut>>

\* return cls.__instance
GetInstanceReturn == \E t \in Threads :
    /\ factory.pc[t] = "return"
    /\ factory' = [Goto(factory, t, "idle") EXCEPT !.ret[t] = Append(@, factory.instance)]
    /\ UNCHANGED <<sessionVars, fragVars, cipherVars, scanOut, helperOut>>

NextFactory ==
    \/ GetInstanceAcquire
    \/ GetInstanceTest
    \/ GetInstanceNew
    \/ GetInstanceStore
    \/ GetInstanceExit
    \/ GetInstanceReturn

SpecFactory == InitScan /\ [][NextFactory]_vars

\* C26: however the threads that call get_instance interleave, key material is
\* created at most once, and exactly once as soon as a call has returned; every call
\* returns the one instance; and the instance, once set, is never replaced
C26_KeySingleton ==
    /\ [](/\ factory.created <= 1
          /\ \A t \in Threads : \A i \in 1..Len(factory.ret[t]) :
                /\ factory.created = 1
                /\ factory.ret[t][i] = Some(1)
                /\ factory.ret[t][i] = factory.instance)
    /\ [][factory.instance # Nothing => factory.instance' = factory.instance]_vars

\* two threads were inside get_instance at once, one of them waiting for the lock
\* while the other created the instance, and both have returned
C26_Witness ==
    \E t, u \in Threads :
        /\ t # u
        /\ factory.ret[t] # <<>>
        /\ factory.pc[u] = "return"
        /\ factory.created = 1

\* ---------------------------------------------------------------------------
\* The history tag (helper.py, HistoryTagHelper). A str is a sequence of code
\* points, bytes are a sequence of numbers below 256.

\* the strings that are tried: up to MaxPad copies of one character, then up to
\* MaxTail characters; the characters have UTF-8 encodings of 1, 2, 3 and 4 bytes,
\* and one is a lone surrogate, which a str can hold
MaxPad == 22
MaxTail == 2
CodePoints == {65, 233, 12354, 128512, 55296}
Surrogates == 55296..57343
Strings ==
    {[i \in 1..k |-> c] \o tail :
        k \in 0..MaxPad, c \in CodePoints \ Surrogates,
        tail \in UNION {[1..n -> CodePoints] : n \in 0..MaxTail}}

\* the UTF-8 encoding of one code point; a surrogate has none
utf8(cp) ==
    IF cp < 128 THEN <<cp>>
    ELSE IF cp < 2048 THEN <<192 + (cp \div 64), 128 + (cp % 64)>>
    ELSE IF cp < 65536
         THEN <<224 + (cp \div 4096), 128 + ((cp \div 64) % 64), 128 + (cp % 64)>>
    ELSE <<240 + (cp \div 262144), 128 + ((cp \div 4096) % 64),
           128 + ((cp \div 64) % 64), 128 + (cp % 64)>>

\* str.encode("utf-8"): UnicodeEncodeError if the string holds a surrogate
RECURSIVE encode(_)
encode(s) ==
    IF s = <<>> THEN [exc |-> "none", ret |-> <<>>]
    ELSE IF Head(s) \in Surrogates THEN [exc |-> "UnicodeEncodeError", ret |-> <<>>]
    ELSE LET rest == encode(Tail(s))
         IN IF rest.exc # "none" THEN rest
            ELSE [exc |-> "none", ret |-> utf8(Head(s)) \o rest.ret]

\* (b & 0xC0) == 0x80
IsContinuation(b) == (b \div 64) = 2

\* a split that cuts at n whatever byte is there
CutAtLimit(s, k) == k
\* split_utf8: while (s[k] & 0xC0) == 0x80: k -= 1 (s[k] is the byte after the
\* first k bytes)
RECURSIVE Boundary(_, _)
Boundary(s, k) ==
    IF k > 0 /\ IsContinuation(s[k + 1]) THEN Boundary(s, k - 1) ELSE k

\* next(split_utf8(s, n)): the first chunk
split_utf8(s, n) ==
    IF Len(s) > n THEN SubSeq(s, 1, Boundary(s, n)) ELSE s

\* HistoryTagHelper.create_htag(history_tag)
create_htag(history_tag) ==
    LET encoded == encode(history_tag)
    IN IF encoded.exc # "none" THEN [exc |-> encoded.exc, ret |-> <<>>]
       ELSE LET htag_body == split_utf8(encoded.ret, HtagLen - 1)
                htag_prefix == <<Len(htag_body)>>
                htag_suffix == Zeros(HtagLen - Len(htag_prefix \o htag_body))
            IN [exc |-> "none", ret |-> htag_prefix \o htag_body \o htag_suffix]

\* a caller calls create_htag(history_tag)
CreateHtag ==
    /\ helperOut.op = "init"
    /\ \E history_tag \in Strings :
          helperOut' = [op |-> "create_htag", arg |-> history_tag,
                        exc |-> create_htag(history_tag).exc,
                        ret |-> create_htag(history_tag).ret]
    /\ UNCHANGED <<sessionVars, fragVars, cipherVars, scanOut, factory>>

NextHtag ==
    \/ CreateHtag

SpecHtag == InitScan /\ [][NextHtag]_vars

\* the lengths of the encodings of the prefixes of s: the code-point boundaries
Boundaries(s) == {Len(encode(SubSeq(s, 1, j)).ret) : j \in 0..Len(s)}

\* ret is 22 bytes: a length byte n <= 21, the first n bytes of the encoding of s
\* where n is the last code-point boundary at or below 21, then zeros
IsHtagOf(ret, s) ==
    /\ Len(ret) = HtagLen
    /\ LET n == ret[1]
       IN /\ n <= HtagLen - 1
          /\ n \in Boundaries(s)
          /\ \A m \in Boundaries(s) : m <= HtagLen - 1 => m <= n
          /\ SubSeq(ret, 2, n + 1) = SubSeq(encode(s).ret, 1, n)
          /\ \A i \in (n + 2)..HtagLen : ret[i] = 0

\* C27 as stated: for every string s, create_htag(s) returns 22 bytes: the length
\* n <= 21, the longest prefix of the UTF-8 encoding of s that ends on a code-point
\* boundary and has at most 21 bytes, and zeros
C27_HtagOfEveryString ==
    helperOut.op = "create_htag"
    => /\ helperOut.exc = "none"
       /\ IsHtagOf(helperOut.ret, helperOut.arg)

\* C27: for every string s that has a UTF-8 encoding, create_htag(s) returns 22
\* bytes: the length n <= 21, the longest prefix of the encoding that ends on a
\* code-point boundary and has at most 21 bytes, and zeros; for a string with a
\* lone surrogate it raises UnicodeEncodeError
C27_Htag ==
    helperOut.op = "create_htag"
    => IF \E i \in 1..Len(helperOut.arg) : helperOut.arg[i] \in Surrogates
       THEN helperOut.exc = "UnicodeEncodeError"
       ELSE /\ helperOut.exc = "none"
            /\ IsHtagOf(helperOut.ret, helperOut.arg)

\* the encoding is longer than 21 bytes and its 22nd byte is inside a character, so
\* the body is shorter than 21 bytes
C27_Witness ==
    /\ helperOut.op = "create_htag"
    /\ helperOut.exc = "none"
    /\ Len(encode(helperOut.arg).ret) > HtagLen - 1
    /\ IsContinuation(encode(helperOut.arg).ret[HtagLen])
    /\ helperOut.ret[1] < HtagLen - 1

\* ---------------------------------------------------------------------------
\* The battery of a lock (helper.py, CHSesame2MechStatus). The voltage is
\* battery_raw * 7.2 / 1023; it is kept here as the integer battery_raw * 72, and a
\* table entry of v tenths of a volt as v * 1023, so that comparisons and the
\* interpolation are exact.

\* int.from_bytes(data[0:2], "little")
BatteryRawBits == 16
BatteryRaws == 0..(2^BatteryRawBits - 1)

\* list_vol in tenths of a volt, and list_pct
list_vol == <<60, 58, 57, 56, 54, 52, 51, 50, 48, 46>>
list_pct == <<100, 50, 40, 32, 21, 13, 10, 7, 3, 0>>

Volts(battery_raw) == battery_raw * 72
Entry(v) == v * 1023

\* The doubles differ from the exact values where it shows at two inputs only:
\* 682 * 7.2 / 1023 is 4.800000000000001, above the entry 4.8 that it equals
\* exactly, and at 775 the interpolated value is 23.999999999999968 where the
\* exact one is 24. Everywhere else the exact value is at least 1/2046 away from
\* an entry or a whole number.
RoundedUp == {682}
RoundedDown == {775}

\* cur_vol > v
Above(battery_raw, v) ==
    \/ Volts(battery_raw) > Entry(v)
    \/ Volts(battery_raw) = Entry(v) /\ battery_raw \in RoundedUp

\* an interpolation that measures from the upper entry
InterpolateFromTop(battery_raw, i) ==
    LET num == (Entry(list_vol[i]) - Volts(battery_raw)) * (list_pct[i] - list_pct[i + 1])
        den == Entry(list_vol[i]) - Entry(list_vol[i + 1])
    IN list_pct[i + 1] + (num \div den)
\* f = (cur_vol - list_vol[i + 1]) / (list_vol[i] - list_vol[i + 1]);
\* int(f4 + (f * (f3 - f4)))
Interpolate(battery_raw, i) ==
    LET diff == Volts(battery_raw) - Entry(list_vol[i + 1])
        num == (IF diff > 0 THEN diff ELSE 0) * (list_pct[i] - list_pct[i + 1])
        den == Entry(list_vol[i]) - Entry(list_vol[i + 1])
        whole == list_pct[i + 1] + (num \div den)
    IN IF num % den = 0 /\ battery_raw \in RoundedDown THEN whole - 1 ELSE whole

\* the while loop of getBatteryPrecentage from entry i on
RECURSIVE batteryLoop(_, _)
batteryLoop(battery_raw, i) ==
    IF i > Len(list_vol) - 1 THEN 0
    ELSE IF Above(battery_raw, list_vol[i]) \/ ~Above(battery_raw, list_vol[i + 1])
    THEN batteryLoop(battery_raw, i + 1)
    ELSE Interpolate(battery_raw, i)

\* CHSesame2MechStatus.getBatteryPrecentage() of a status with this battery_raw
getBatteryPrecentage(battery_raw) ==
    IF ~(Volts(battery_raw) < Entry(list_vol[1])) THEN 100
    ELSE IF ~Above(battery_raw, list_vol[Len(list_vol)]) THEN 0
    ELSE batteryLoop(battery_raw, 1)

\* a caller builds a CHSesame2MechStatus and asks for the battery percentage
GetBatteryPrecentage ==
    /\ helperOut.op = "init"
    /\ \E battery_raw \in BatteryRaws :
          helperOut' = [op |-> "getBatteryPrecentage", arg |-> battery_raw,
                        exc |-> "none", ret |-> getBatteryPrecentage(battery_raw)]
    /\ UNCHANGED <<sessionVars, fragVars, cipherVars, scanOut, factory>>

NextBattery ==
    \/ GetBatteryPrecentage

SpecBattery == InitScan /\ [][NextBattery]_vars

\* C28: for every 16-bit battery_raw the percentage is within 0..100, is not above
\* the percentage of the next higher battery_raw, is 100 at or above 6.0 V and is 0
\* at or below 4.6 V
C28_BatteryMonotone ==
    helperOut.op = "getBatteryPrecentage"
    => /\ helperOut.ret \in 0..100
       /\ helperOut.arg + 1 \in BatteryRaws
          => helperOut.ret <= getBatteryPrecentage(helperOut.arg + 1)
       /\ helperOut.arg * 72 >= 60 * 1023 => helperOut.ret = 100
       /\ helperOut.arg * 72 <= 46 * 1023 => helperOut.ret = 0

\* a voltage between 4.6 V and 6.0 V where the percentage rises with the next
\* battery_raw
C28_Witness ==
    /\ helperOut.op = "getBatteryPrecentage"
    /\ helperOut.ret > 0 /\ helperOut.ret < 100
    /\ helperOut.ret < getBatteryPrecentage(helperOut.arg + 1)
    /\ getBatteryPrecentage(helperOut.arg + 1) < 100

\* the number of chunks of the payload of the transmitter
ChunksOf(data) == (Len(data) + Mtu - 1) \div Mtu

\* C29: for a non-empty payload, the first chunk that getChunk returns has
\* is_start = 1 and the later ones is_start = 0; the last chunk carries the kind of
\* the transmitter and the others APPEND_ONLY (0); a chunk has at most 20 bytes;
\* getChunk returns None only after the last chunk, and then on every further call
C29_TransmitterHeader ==
    /\ [](txInput # <<>>
          => /\ fragOut.op = "chunk"
                => LET chunk == The(fragOut.chunk)
                   IN /\ chunk[1] % 2 = (IF fragFed = 0 THEN 1 ELSE 0)
                      /\ chunk[1] \div 2 = (IF fragFed + 1 = ChunksOf(txInput)
                                            THEN SegmentValue(txKind) ELSE 0)
                      /\ Len(chunk) <= Mtu + 1
                      /\ fragFed < ChunksOf(txInput)
             /\ fragOut.op = "end"
                => /\ fragFed = ChunksOf(txInput)
                   /\ getChunk(CurTx).out = Nothing
                   /\ getChunk(CurTx).exc = "none")
    /\ [][txInput # <<>> /\ fragOut.op = "end" => fragOut'.op = "end"]_vars

\* the last chunk of a payload of several chunks: not a start, and of the kind of
\* the transmitter
C29_Witness ==
    /\ fragOut.op = "chunk"
    /\ fragFed >= 2
    /\ fragFed + 1 = ChunksOf(txInput)
    /\ The(fragOut.chunk)[1] = 2 * SegmentValue(txKind)

(***************************************************************************)
(* The receiver on its own: a CHSesame2BleReceiver that is fed chunks of   *)
(* any header, as a peer may send them.                                    *)
(***************************************************************************)
\* the number of chunks fed
MaxFeeds == 3

\* chunks with every header of a start flag and a kind (0: APPEND_ONLY), and bodies
\* of zero to two bytes
ChunkBodies == {<<>>, <<7>>, <<8, 9>>}
Chunks == {<<isStart + 2 * kind>> \o body :
              isStart \in {0, 1}, kind \in {0, 1, 2}, body \in ChunkBodies}

\* CHSesame2BleReceiver()
InitReceiver ==
    /\ InitFrag
    /\ txKind = "plaintext"
    /\ txInput = <<>>

\* a notification carries the chunk barr, and the receiver is fed it
FeedChunk ==
    /\ fragFed < MaxFeeds
    /\ \E barr \in Chunks :
          LET r == feed(rxBuffer, barr)
          IN /\ rxBuffer' = r.buffer
             /\ fragOut' = FragOut("fed", Some(barr), r.kind, r.data, r.exc)
             /\ rxFed' = Append(rxFed, barr)
    /\ fragFed' = fragFed + 1
    /\ UNCHANGED <<txInput, txKind, txWaitsend, txFirst, sessionVars, cipherVars, libVars>>

NextReceiver ==
    \/ FeedChunk

SpecReceiver == InitReceiver /\ [][NextReceiver]_vars

\* feed has returned a frame: a kind and bytes
ReturnedFrame(out) == out.op = "fed" /\ out.exc = "none" /\ out.kind # "None"

\* C30: once feed has returned (kind, bytes), the buffer of the receiver is empty,
\* and a following chunk without the start flag and with a terminal kind returns
\* its own body only
C30_ReceiverResets ==
    /\ [](ReturnedFrame(fragOut) => rxBuffer = <<>>)
    /\ [][(/\ ReturnedFrame(fragOut)
           /\ ReturnedFrame(fragOut')
           /\ The(fragOut'.chunk)[1] % 2 = 0)
          => fragOut'.data = Some(Tail(The(fragOut'.chunk)))]_vars

\* the bodies of the chunks fed[from..to], joined
RECURSIVE JoinBodies(_, _, _)
JoinBodies(fed, from, to) ==
    IF from > to THEN <<>> ELSE Tail(fed[from]) \o JoinBodies(fed, from + 1, to)

\* the chunks fed that have the start flag
StartsOf(fed) == {k \in 1..Len(fed) : fed[k][1] % 2 = 1}

\* C31: whatever was fed before, a chunk with the start flag replaces the buffer,
\* so that at the first chunk of a terminal kind from the latest start chunk on,
\* feed returns the bodies from that start chunk on and nothing else; and a chunk
\* whose kind is APPEND_ONLY (0) is never returned as a frame
C31_ReceiverResynchronises ==
    (fragOut.op = "fed" /\ rxFed # <<>>)
    => LET n == Len(rxFed)
           chunk == rxFed[n]
       IN /\ chunk[1] % 2 = 1 => rxBuffer = Tail(chunk)
          /\ chunk[1] \div 2 = 0 => fragOut.kind = "None" /\ fragOut.data = Nothing
          /\ \A k \in StartsOf(rxFed) :
                (/\ \A j \in (k + 1)..n : j \notin StartsOf(rxFed)
                 /\ \A j \in k..(n - 1) : rxFed[j][1] \div 2 = 0
                 /\ chunk[1] \div 2 # 0)
                => /\ fragOut.kind = (IF chunk[1] \div 2 = 1 THEN "plaintext"
                                      ELSE "ciphertext")
                   /\ fragOut.data = Some(JoinBodies(rxFed, k, n))

\* a frame was left without its last chunk, and the frame of two chunks that
\* started after it has been returned
C31_Witness ==
    /\ fragOut.op = "fed" /\ Len(rxFed) = 3
    /\ rxFed[1][1] = 1 /\ Len(rxFed[1]) > 1
    /\ rxFed[2][1] = 1 /\ Len(rxFed[2]) > 1
    /\ rxFed[3][1] \div 2 # 0 /\ rxFed[3][1] % 2 = 0 /\ Len(rxFed[3]) > 1
    /\ fragOut.data = Some(Tail(rxFed[2]) \o Tail(rxFed[3]))

(***************************************************************************)
(* The session between the login command and the end of the connection:   *)
(* the device sends publishes of its mechanical status and setting, the   *)
(* login response and other responses, all sealed.                         *)
(***************************************************************************)
\* the frames the device sends in one run
MaxFrames == 3

\* the settings and statuses that the device publishes: the lock and the unlock
\* position may change places
PublishSettings == MechSettings \cup {[lockPosition |-> 20, unlockPosition |-> 10]}
\* the responses of a device to the commands lock, unlock and click
CommandResponses ==
    {Notify("response", it, re, "None", NoSetting, NoStatus) :
        it \in {"lock", "unlock", "click"}, re \in {"success", "invalidSig"}}
PublishStatuses(kind) == MechStatuses(kind)
PublishNotifies(kind) ==
    {Notify("publish", "mechStatus", "None", "None", NoSetting, st) :
        st \in PublishStatuses(kind)}
    \cup {Notify("publish", "mechSetting", "None", "None", se, NoStatus) :
             se \in PublishSettings}
    \cup LoginResponses(kind)
    \cup CommandResponses

\* the session after setAdvertisement, the key setters, connect(), the publish
\* (initial) and the login frame: the cipher is new; one handler for each frame
InitPublish ==
    /\ devKind \in {"lock", "bot"}
    /\ \E tk \in Tokens :
          At([LoggingIn(devKind, tk) EXCEPT
                 !.cipher = Some(BleCipher(SessionKey(<<AppToken, tk>>), <<AppToken, tk>>))])
    /\ tasks = [i \in 1..MaxFrames |-> Nothing]
    /\ last = [op |-> "init", arg |-> None, seg |-> "start", err |-> "none", pending |-> FALSE,
               observed |-> <<>>]
    /\ FragIdle /\ CipherIdle /\ LibIdle

\* the transport delivers a complete sealed frame: bleak calls
\* onCharacteristicChanged
OnSealedFrame ==
    /\ link.state = "connected" /\ link.subscribed /\ cipher # Nothing
    /\ \E n \in PublishNotifies(devKind) :
          LET frame == Sealed(n, The(cipher).session_token[2], The(cipher).decryptCounter)
          IN Start("onCharacteristicChanged", FrameTag(frame),
                   onCharacteristicChanged(Cur, devKind, frame))

NextPublish ==
    \/ OnSealedFrame

SpecPublish == InitPublish /\ [][NextPublish]_vars

\* the intention that the rule of the lock gives for a status and a setting, where
\* it gives one
RuleIntention(status, setting) ==
    IF status.target = IdleTarget THEN Some("idle")
    ELSE IF setting = Nothing THEN Nothing
    ELSE IF status.target = The(setting).lockPosition THEN Some("locking")
    ELSE IF status.target = The(setting).unlockPosition THEN Some("unlocking")
    ELSE Nothing

\* C32: after any sequence of publishes of the mechanical status and setting, the
\* intention of a lock session is what the rule gives for the current status and
\* the current setting: idle exactly if the target is -32768, otherwise locking if
\* the target is the lock position, unlocking if it is the unlock position
C32_IntentionRecomputed ==
    (devKind = "lock" /\ mechStatus # Nothing)
    => /\ intention = "idle" <=> The(mechStatus).target = IdleTarget
       /\ RuleIntention(The(mechStatus), mechSetting) # Nothing
          => intention = The(RuleIntention(The(mechStatus), mechSetting))

\* the step is the handler of a frame that carries a publish of item
HandlesPublish(item) ==
    /\ last'.op = "onCharacteristicChanged"
    /\ last'.arg.notifyOp = "publish"
    /\ last'.arg.item = item

\* C33: a publish of the mechanical setting that a session without a mechanical
\* status processes completes without error and stores the setting, for the lock
\* and for the bot
C33_SettingBeforeStatus ==
    [][(HandlesPublish("mechSetting") /\ mechStatus = Nothing)
       => /\ last'.err = "none"
          /\ mechSetting' = Some(last'.arg.setting)]_vars

\* C34: a complete frame of the kind ciphertext that comes while the session has no
\* cipher fails with RuntimeError and changes nothing in the session, for the lock
\* and for the bot
C34_CiphertextWithoutCipher ==
    [][(/\ last'.op = "onCharacteristicChanged"
        /\ last'.arg.seg = "ciphertext"
        /\ cipher = Nothing)
       => /\ last'.err = "RuntimeError"
          /\ UNCHANGED <<deviceStatus, loginEvent, cipher, sesameToken, mechStatus,
                         mechSetting, intention, written>>]_vars

(***************************************************************************)
(* The login on its own: a caller sets the keys and the token of a new     *)
(* session, in any order, and awaits loginSesame().                        *)
(***************************************************************************)
\* CHSesameLock.setSesameToken with the token of a publish (initial)
SetSesameToken == \E tk \in Tokens :
    /\ sesameToken = None
    /\ Call("setSesameToken", tk, [Cur EXCEPT !.sesameToken = tk])

\* a caller awaits loginSesame()
LoginSesame ==
    /\ \E i \in Slots : FreeSlot(i)
    /\ Start("loginSesame", None, loginSesame(Cur, devKind))

NextLogin ==
    \/ SetSecretKey
    \/ SetSesame2PublicKey
    \/ SetSesameToken
    \/ SetDeviceStatus
    \/ LoginSesame

SpecLogin == Init /\ [][NextLogin]_vars

\* C35: loginSesame called while the token of the device, the secret key or the
\* public key of the device is missing fails with RuntimeError, writes nothing,
\* installs no cipher and leaves the device status as it was, for the lock and for
\* the bot
C35_LoginWithoutKeys ==
    [][(/\ last'.op = "loginSesame"
        /\ (sesameToken = None \/ ~key.secretKey \/ ~key.sesame2PublicKey))
       => /\ last'.err = "RuntimeError"
          /\ UNCHANGED <<written, cipher, deviceStatus>>]_vars

(***************************************************************************)
(* The advertisement on its own: setAdvertisement on a session in any      *)
(* status.                                                                 *)
(***************************************************************************)
NextAdvertisement ==
    \/ SetDeviceStatus
    \/ SetDeviceStatusCallbackOf
    \/ SetAdvertisement

SpecAdvertisement == Init /\ [][NextAdvertisement]_vars

\* the step is setAdvertisement with an advertisement of a registered device
SetsRegisteredAdvertisement ==
    /\ last'.op = "setAdvertisement"
    /\ last'.arg # Nothing
    /\ The(last'.arg).isRegistered

\* C36: setAdvertisement with the advertisement of a registered device stores its
\* rssi and its registered flag; it changes the device status from NoBleSignal to
\* ReceivedBle, and in any other status leaves the device status and the login
\* event as they were
C36_AdvertisementStatus ==
    [][SetsRegisteredAdvertisement
       => /\ rssi' = The(last'.arg).rssi
          /\ registered' = TRUE
          /\ advertisement' = last'.arg
          /\ IF deviceStatus = "NoBleSignal"
             THEN deviceStatus' = "ReceivedBle"
             ELSE deviceStatus' = deviceStatus /\ loginEvent' = loginEvent]_vars

\* the advertisement of a registered device has reached a session that is Locked
\* and logged in, and that had no signal strength before
C36_Witness ==
    /\ last.op = "setAdvertisement"
    /\ last.arg # Nothing /\ The(last.arg).isRegistered
    /\ deviceStatus = "Locked" /\ loginEvent
    /\ rssi = AdvRssi /\ registered

\* C37: the status of a session enters the logged-in class (Locked, Unlocked,
\* NoSettings, ...), and its login event becomes set, only in the step that
\* processes a response (login, success); a publish of the mechanical status or
\* setting that comes while the status is BleLogining does not log the session in
C37_LoggedInOnlyByLoginResponse ==
    [][(\/ StatusValue(deviceStatus) # "Login" /\ StatusValue(deviceStatus') = "Login"
        \/ ~loginEvent /\ loginEvent')
       => IsLoginSuccess(last')]_vars

\* the step is the handler of a frame that carries a response other than
\* (login, success)
HandlesOtherResponse ==
    /\ last'.op = "onCharacteristicChanged"
    /\ last'.arg.notifyOp = "response"
    /\ ~(last'.arg.item = "login" /\ last'.arg.result = "success")

\* C38: a response that is not (login, success), that is a login response with
\* another result code or the response to lock, unlock or click, leaves the
\* device status, the mechanical status and setting, the intention and the login
\* event of the session as they were
C38_OtherResponseChangesNothing ==
    [][HandlesOtherResponse
       => UNCHANGED <<deviceStatus, mechStatus, mechSetting, intention, loginEvent>>]_vars

\* a rejected login has been processed and the session is still in BleLogining
C38_Witness ==
    /\ last.op = "onCharacteristicChanged"
    /\ last.arg.notifyOp = "response" /\ last.arg.item = "login"
    /\ last.arg.result = "invalidSig"
    /\ deviceStatus = "BleLogining" /\ ~loginEvent

(***************************************************************************)
(* disconnect() of a logged-in session while the device keeps notifying:   *)
(* the handlers of the frames run between the segments of disconnect().    *)
(***************************************************************************)
MaxDisconnects == 2

InitDisconnect == InitLoggedIn(MaxDisconnects)

NextDisconnect ==
    \/ Disconnect
    \/ DisconnectStopped
    \/ DisconnectClosed
    \/ OnSealedFrame

SpecDisconnect == InitDisconnect /\ [][NextDisconnect]_vars

\* C39: in the step in which disconnect() returns, whether its transport calls
\* succeeded or failed and whatever notifications were handled while it was
\* suspended, no exception leaves it, the device status is NoBleSignal and the
\* login event is clear
C39_DisconnectedOnReturn ==
    [][(last'.op = "disconnect" /\ ~last'.pending)
       => /\ last'.err = "none"
          /\ deviceStatus' = "NoBleSignal"
          /\ ~loginEvent']_vars

(***************************************************************************)
(* Commands on a session whose status was set from outside: with and       *)
(* without a cipher, with and without a TX characteristic.                 *)
(***************************************************************************)
NextNoCipher ==
    \/ SetDeviceStatus
    \/ SetCharacteristicTX
    \/ SetCipher
    \/ Lock
    \/ Unlock
    \/ Click

SpecNoCipher == Init /\ [][NextNoCipher]_vars

\* the step is the call of lock, unlock or click
IssuesCommand == last'.op \in {"lock", "unlock", "click"} /\ last'.seg = "start"

\* C40: lock, unlock or click called in a status of the logged-in class on a
\* session that has no cipher returns without an exception, without waiting for
\* the transport and without a write
C40_CommandWithoutCipherDropped ==
    [][(IssuesCommand /\ StatusValue(deviceStatus) = "Login" /\ cipher = Nothing)
       => /\ last'.err = "none" /\ ~last'.pending
          /\ UNCHANGED <<written, cipher, deviceStatus>>]_vars

\* click has returned on a bot in the status Locked that has a TX characteristic
\* and no cipher, and nothing was written
C40_Witness ==
    /\ last.op = "click" /\ last.err = "none" /\ ~last.pending
    /\ deviceStatus = "Locked" /\ cipher = Nothing
    /\ characteristicTX /\ written = <<>>
=============================================================================
